---- MODULE Spec2Model ----
(***************************************************************************)
(* A model of the BinaryEncoder of binary-coding: the cursor (buffer,      *)
(* offset, endianness), the typed writes, the scoped helpers of the coder  *)
(* base class and the dynamic-sizing controller.                           *)
(*                                                                         *)
(* One encoder object is modelled.  A callback passed to a scoped method   *)
(* (withDynamicSize, withOffset, ...) is a frame on `stack`; the calls the *)
(* callback makes are the actions taken while the frame is on the stack.   *)
(* A thrown error is `err = TRUE`: it is either caught where it is         *)
(* (Catch) or leaves the innermost callback (Propagate), which drops the   *)
(* frame without running the code that follows `fn()` in the method.       *)
(***************************************************************************)
EXTENDS Integers, Sequences, FiniteSets, TLC

VARIABLES
  buffer,                  \* this.buffer: the bytes, index 1 is offset 0
  offset,                  \* this._offset
  endianness,              \* this._endianness
  dynamicSizing,           \* this._dynamicSizing
  dynamicChunkSize,        \* this._dynamicChunkSize
  dynamicBufferCropSize,   \* this._dynamicBufferCropSize
  dynamicMinimumCropSize,  \* this._dynamicMinimumCropSize: <<>> is null
  stack,                   \* callbacks in progress, innermost last
  err,                     \* an error has been thrown and not yet caught
  scope,                   \* history: what the running / last scope has seen
  tape,                    \* history: the bytes the buffer should hold
  last,                    \* history: the last call and its arguments
  steps                    \* number of calls made so far

vars == <<buffer, offset, endianness, dynamicSizing, dynamicChunkSize,
          dynamicBufferCropSize, dynamicMinimumCropSize, stack, err,
          scope, tape, last, steps>>

encVars == <<buffer, offset, endianness, dynamicSizing, dynamicChunkSize,
             dynamicBufferCropSize, dynamicMinimumCropSize>>

----------------------------------------------------------------------------
(* Bounds of the model. *)

MaxInitLen == 2      \* longest buffer an encoder is constructed over
MaxDepth == 2        \* deepest nesting of scoped callbacks
MaxSteps == 4        \* calls made on one encoder

(* Program constant. *)
DEFAULT_CHUNK_SIZE == 256

----------------------------------------------------------------------------
(* Helpers. *)

Max(a, b) == IF a >= b THEN a ELSE b
Min(a, b) == IF a <= b THEN a ELSE b
Zeros(n) == [i \in 1..n |-> 0]

(* An optional argument or nullable field: <<>> is undefined / null. *)
Coalesce(opt, default) == IF opt = <<>> THEN default ELSE opt[1]

(* Numbers that may be fractional are passed in halves: h stands for h/2. *)
IsInteger(h) == h % 2 = 0
Whole(h) == h \div 2

(* The handler-local view of the encoder: the fields a write reads or
   touches, whether the call has thrown and whether it has put a new Buffer
   object in place of the one it started with. *)
Here ==
  [buffer |-> buffer, offset |-> offset, crop |-> dynamicBufferCropSize,
   sizing |-> dynamicSizing, chunk |-> dynamicChunkSize, threw |-> FALSE,
   replaced |-> FALSE]

(* The bytes of buf with bs stored from (0-based) offset off. *)
Patch(buf, off, bs) ==
  [i \in 1..Len(buf) |->
     IF i > off /\ i <= off + Len(bs) THEN bs[i - off] ELSE buf[i]]

(* The n bytes of the unsigned integer v, least significant first. *)
RECURSIVE ShiftRightBytes(_, _)
ShiftRightBytes(v, k) == IF k = 0 THEN v ELSE ShiftRightBytes(v \div 256, k - 1)
BytesLE(v, n) == [i \in 1..n |-> ShiftRightBytes(v, i - 1) % 256]
BytesBE(v, n) == [i \in 1..n |-> ShiftRightBytes(v, n - i) % 256]

----------------------------------------------------------------------------
(* BinaryCoderBase *)

(* Variant: an offset at the very end of the buffer counts as inside it. *)
hasClearanceAtEnd(buf, off, bytes, fromOffset) ==
  LET o == Coalesce(fromOffset, off) IN
  IF o < 0 \/ o > Len(buf) THEN FALSE ELSE bytes <= Len(buf) - o

hasClearance(buf, off, bytes, fromOffset) ==
  LET o == Coalesce(fromOffset, off) IN
  IF o < 0 \/ o >= Len(buf) THEN FALSE ELSE bytes <= Len(buf) - o

(* Variant: the little-endian method whatever the endianness. *)
resolveEndianLittle(e, le, be) == le

resolveEndian(e, le, be) == IF e = "LE" THEN le ELSE be

(* The protected helpers the encoder calls on its base class. *)
addBytesToBuffer(buf, n) == IF n = 0 THEN buf ELSE buf \o Zeros(n)
cropBuffer(buf, size) == SubSeq(buf, 1, size)
(* Whether the helper leaves a new Buffer object in place of the old one:
   adding no bytes keeps the object, a crop never does. *)
addBytesReplaces(n) == n # 0
cropReplaces(size) == TRUE
setOffset(e, value) == [e EXCEPT !.offset = value]

----------------------------------------------------------------------------
(* BinaryEncoder: the typed writes *)

(* Variant: one chunk is added however far the write reaches. *)
bytesToAddOnce(bytesToAdd, writeEnd, byteLength, chunk) == bytesToAdd + chunk

(* do { bytesToAdd += chunk } while (offset + bytes > byteLength + bytesToAdd) *)
RECURSIVE bytesToAddLoop(_, _, _, _)
bytesToAddLoop(bytesToAdd, writeEnd, byteLength, chunk) ==
  LET added == bytesToAdd + chunk IN
  IF writeEnd > byteLength + added
    THEN bytesToAddLoop(added, writeEnd, byteLength, chunk)
    ELSE added

(* Variant: the crop size is advanced only by writes that grow the buffer. *)
resizeIfDynamicUntracked(e, bytes) ==
  IF ~e.sizing THEN e
  ELSE IF hasClearance(e.buffer, e.offset, bytes, <<>>) THEN e
  ELSE
    LET writeEnd == e.offset + bytes
        e1 == IF writeEnd > e.crop THEN [e EXCEPT !.crop = writeEnd] ELSE e
        bytesToAdd == bytesToAddLoop(0, writeEnd, Len(e1.buffer), e.chunk)
    IN [e1 EXCEPT !.buffer = addBytesToBuffer(e1.buffer, bytesToAdd),
                  !.replaced = @ \/ addBytesReplaces(bytesToAdd)]

(* Variant: growth allocates a buffer of the new length without copying the
   old one into it. *)
resizeIfDynamicFresh(e, bytes) ==
  IF ~e.sizing THEN e
  ELSE
    LET writeEnd == e.offset + bytes
        e1 == IF writeEnd > e.crop THEN [e EXCEPT !.crop = writeEnd] ELSE e
        bytesToAdd == bytesToAddLoop(0, writeEnd, Len(e1.buffer), e.chunk)
    IN IF hasClearance(e1.buffer, e1.offset, bytes, <<>>) THEN e1
       ELSE [e1 EXCEPT !.buffer = Zeros(Len(e1.buffer) + bytesToAdd),
                       !.replaced = @ \/ addBytesReplaces(bytesToAdd)]

resizeIfDynamic(e, bytes) ==
  IF ~e.sizing THEN e
  ELSE
    LET writeEnd == e.offset + bytes
        e1 == IF writeEnd > e.crop THEN [e EXCEPT !.crop = writeEnd] ELSE e
        bytesToAdd == bytesToAddLoop(0, e1.offset + bytes, Len(e1.buffer),
                                     e.chunk)
    IN IF hasClearance(e1.buffer, e1.offset, bytes, <<>>) THEN e1
       ELSE [e1 EXCEPT !.buffer = addBytesToBuffer(e1.buffer, bytesToAdd),
                       !.replaced = @ \/ addBytesReplaces(bytesToAdd)]

(* Buffer.prototype.writeUInt8 / writeUInt16LE / ...: stores the bytes at
   the offset and returns the offset after them; throws, storing nothing,
   when the bytes do not lie inside the buffer. *)
bufferWriteNumber(e, bs) ==
  IF e.offset < 0 \/ e.offset + Len(bs) > Len(e.buffer)
    THEN [e EXCEPT !.threw = TRUE]
    ELSE setOffset([e EXCEPT !.buffer = Patch(e.buffer, e.offset, bs)],
                   e.offset + Len(bs))

(* _number / _bigint with a plain value: bs are the value's bytes in the
   order the chosen write method stores them. *)
number(e, bs) == bufferWriteNumber(resizeIfDynamic(e, Len(bs)), bs)

uint8(e, value) == number(e, <<value>>)
uint16(e, value) ==
  number(e, resolveEndian(endianness, BytesLE(value, 2), BytesBE(value, 2)))
uint32(e, value) ==
  number(e, resolveEndian(endianness, BytesLE(value, 4), BytesBE(value, 4)))
uint64(e, value) ==
  number(e, resolveEndian(endianness, BytesLE(value, 8), BytesBE(value, 8)))

(* Buffer.prototype.write(string, offset, length, encoding): throws when the
   offset is outside 0..buffer.length or the length exceeds buffer.length,
   otherwise stores as many of the bytes as fit and returns their number. *)
bufferWrite(e, bs) ==
  IF e.offset < 0 \/ e.offset > Len(e.buffer) \/ Len(bs) > Len(e.buffer)
    THEN [e EXCEPT !.threw = TRUE]
    ELSE LET bytesWritten == Min(Len(bs), Len(e.buffer) - e.offset) IN
         setOffset([e EXCEPT !.buffer =
                      Patch(e.buffer, e.offset, SubSeq(bs, 1, bytesWritten))],
                   e.offset + bytesWritten)

(* chars: value is given as its encoded bytes. *)
chars(e, value) == bufferWrite(resizeIfDynamic(e, Len(value)), value)

(* null: for (_ = 0; _ < bytes; ++_) this.uint8(0), left by a throw. *)
RECURSIVE null(_, _)
null(e, bytes) ==
  IF bytes <= 0 \/ e.threw THEN e ELSE null(uint8(e, 0), bytes - 1)

(* bytes: values.forEach(value => this.byte(value)), left by a throw. *)
RECURSIVE bytes(_, _)
bytes(e, values) ==
  IF values = <<>> \/ e.threw THEN e
  ELSE bytes(uint8(e, Head(values)), Tail(values))

terminatedString(e, value) ==
  LET e1 == chars(e, value) IN IF e1.threw THEN e1 ELSE null(e1, 1)

----------------------------------------------------------------------------
(* Inputs. *)

InitBuffers ==
  {Zeros(n) : n \in 0..MaxInitLen} \cup {[i \in 1..MaxInitLen |-> 9]}
Endians == {"LE", "BE"}
SeekTargets == {-1, 1, 3}
SkipAmounts == {2}
(* chunk sizes and minimum sizes in halves: -1, 0, 1.5 and the valid ones *)
ChunkArgs == {<<>>, <<-2>>, <<0>>, <<3>>, <<2>>, <<4>>}
(* <<chunkSize, minimumSize>> of dynamicallySized *)
SizedArgs ==
  {<<<<>>, <<>>>>, <<<<2>>, <<>>>>, <<<<4>>, <<2>>>>, <<<<2>>, <<4>>>>,
   <<<<>>, <<6>>>>, <<<<0>>, <<>>>>, <<<<-2>>, <<>>>>, <<<<3>>, <<>>>>,
   <<<<3>>, <<4>>>>, <<<<2>>, <<-2>>>>, <<<<2>>, <<3>>>>}
Uint8Values == {1}
Uint16Values == {258}            \* 0x0102
Uint32Values == {305419896}      \* 0x12345678
Uint64Values == {5}
CharsValues == {<<>>, <<97, 98, 99>>}
StringValues == {<<97>>}
BytesValues == {<<7, 8>>}
NullCounts == {0, 2}
ClearanceArgs == {<<2, <<>>>>}
IncreaseArgs == {2}              \* in halves: 1

----------------------------------------------------------------------------
(* History variables. *)

LastRec(op, arg, b, threw) ==
  [op |-> op, arg |-> arg, b |-> b, threw |-> threw, ret |-> 0,
   preOffset |-> offset, preLen |-> Len(buffer), preDepth |-> Len(stack),
   preActive |-> dynamicSizing, preCrop |-> dynamicBufferCropSize,
   preBuffer |-> buffer, from |-> <<>>, replaced |-> FALSE]

TapeAt(t, i) == IF i <= Len(t) THEN t[i] ELSE 0
(* The tape once the buffer has n bytes: bytes added by growth should be 0. *)
TapePad(t, n) == IF n <= Len(t) THEN t ELSE t \o Zeros(n - Len(t))

(* The tape after bs has been stored from offset off. *)
TapeStore(t, off, bs) ==
  IF bs = <<>> THEN t
  ELSE [i \in 1..Max(Len(t), off + Len(bs)) |->
          IF i > off /\ i <= off + Len(bs) THEN bs[i - off] ELSE TapeAt(t, i)]

----------------------------------------------------------------------------
(* Construction. *)

(* What the history knows of the running (open) or the last scope: how it
   was opened, the length it may not be cropped below, the furthest end of a
   write made in it, whether every call in it succeeded, the offset its
   function returned with, whether the offset was moved past the end,
   whether a nested withDynamicSize was rejected and the buffer length at
   that moment, and the chunk size of the scope before it (0 if none). *)
NoScope ==
  [open |-> FALSE, kind |-> "none", arg |-> <<>>, chunk |-> 0, floor |-> 0,
   hwm |-> 0, clean |-> TRUE, exitOffset |-> 0, soughtPast |-> FALSE,
   nested |-> FALSE, nestedLen |-> 0, prevChunk |-> 0]

NewScope(kind, chunkArg, chunk, floor) ==
  [open |-> TRUE, kind |-> kind, arg |-> chunkArg, chunk |-> chunk,
   floor |-> floor, hwm |-> 0, clean |-> TRUE, exitOffset |-> 0,
   soughtPast |-> FALSE, nested |-> FALSE, nestedLen |-> 0,
   prevChunk |-> scope.chunk]

Settled == IF scope.open THEN scope ELSE [NoScope EXCEPT !.chunk = scope.chunk]

Moved(newOffset) ==
  IF scope.open /\ newOffset > Len(buffer)
    THEN [scope EXCEPT !.soughtPast = TRUE]
    ELSE Settled

Init ==
  /\ buffer \in InitBuffers
  /\ offset = 0
  /\ endianness = "LE"
  /\ dynamicSizing = FALSE
  /\ dynamicChunkSize = DEFAULT_CHUNK_SIZE
  /\ dynamicBufferCropSize = 0
  /\ dynamicMinimumCropSize = <<>>
  /\ stack = <<>>
  /\ err = FALSE
  /\ scope = NoScope
  /\ tape = buffer
  /\ last = [op |-> "new", arg |-> 0, b |-> 0, threw |-> FALSE, ret |-> 0,
             preOffset |-> 0, preLen |-> 0, preDepth |-> 0,
             preActive |-> FALSE, preCrop |-> 0, preBuffer |-> <<>>,
             from |-> <<>>, replaced |-> FALSE]
  /\ steps = 0

(* A call can be made when no error is in flight. *)
CanCall == ~err /\ steps < MaxSteps

Frame(kind) ==
  [kind |-> kind, savedOffset |-> offset, savedEndianness |-> endianness]

Top == stack[Len(stack)]
Front(s) == SubSeq(s, 1, Len(s) - 1)

----------------------------------------------------------------------------
(* Cursor operations. *)

(* Variant: inside a scope, seeking past the end grows the buffer up to the
   new offset. *)
seekResizing(pos) ==
  /\ CanCall
  /\ offset' = pos
  /\ buffer' = resizeIfDynamic([Here EXCEPT !.offset = pos], 0).buffer
  /\ scope' = Moved(pos)
  /\ last' = LastRec("seek", pos, 0, FALSE)
  /\ steps' = steps + 1
  /\ UNCHANGED <<endianness, dynamicSizing, dynamicChunkSize,
                 dynamicBufferCropSize, dynamicMinimumCropSize, stack, err,
                 tape>>

seek(pos) ==
  /\ CanCall
  /\ offset' = pos
  /\ scope' = Moved(pos)
  /\ last' = LastRec("seek", pos, 0, FALSE)
  /\ steps' = steps + 1
  /\ UNCHANGED <<buffer, endianness, dynamicSizing, dynamicChunkSize,
                 dynamicBufferCropSize, dynamicMinimumCropSize, stack, err,
                 tape>>

skip(n) ==
  /\ CanCall
  /\ offset' = offset + n
  /\ scope' = Moved(offset + n)
  /\ last' = LastRec("skip", n, 0, FALSE)
  /\ steps' = steps + 1
  /\ UNCHANGED <<buffer, endianness, dynamicSizing, dynamicChunkSize,
                 dynamicBufferCropSize, dynamicMinimumCropSize, stack, err,
                 tape>>

setEndianness(e) ==
  /\ CanCall
  /\ endianness' = e
  /\ last' = LastRec("setEndianness", 0, 0, FALSE)
  /\ steps' = steps + 1
  /\ UNCHANGED <<buffer, offset, dynamicSizing, dynamicChunkSize,
                 dynamicBufferCropSize, dynamicMinimumCropSize, stack, err,
                 scope, tape>>

----------------------------------------------------------------------------
(* Typed writes.  e2 is the handler's result; wrote says whether the call
   made a write at all (null(0) and bytes([]) make none), b its width and
   bs the bytes it was asked to store. *)

Write(op, e2, wrote, bs) ==
  /\ CanCall
  /\ buffer' = e2.buffer
  /\ offset' = e2.offset
  /\ dynamicBufferCropSize' = e2.crop
  /\ err' = e2.threw
  /\ scope' = IF scope.open
                THEN [scope EXCEPT
                        !.hwm = IF wrote THEN Max(@, offset + Len(bs)) ELSE @,
                        !.clean = @ /\ ~e2.threw]
                ELSE Settled
  /\ tape' = TapePad(IF dynamicSizing /\ ~e2.threw /\ offset >= 0
                        THEN TapeStore(tape, offset, bs)
                      ELSE IF e2.offset > offset
                        THEN TapeStore(tape, offset,
                                       SubSeq(bs, 1, e2.offset - offset))
                      ELSE tape,
                      Len(e2.buffer))
  /\ last' = [LastRec(op, IF wrote THEN 1 ELSE 0, Len(bs), e2.threw)
                EXCEPT !.replaced = e2.replaced]
  /\ steps' = steps + 1
  /\ UNCHANGED <<endianness, dynamicSizing, dynamicChunkSize,
                 dynamicMinimumCropSize, stack>>

Uint8(v) == Write("uint8", uint8(Here, v), TRUE, <<v>>)
Uint16(v) ==
  Write("uint16", uint16(Here, v), TRUE,
        IF endianness = "LE" THEN BytesLE(v, 2) ELSE BytesBE(v, 2))
Uint32(v) ==
  Write("uint32", uint32(Here, v), TRUE,
        IF endianness = "LE" THEN BytesLE(v, 4) ELSE BytesBE(v, 4))
Uint64(v) ==
  Write("uint64", uint64(Here, v), TRUE,
        IF endianness = "LE" THEN BytesLE(v, 8) ELSE BytesBE(v, 8))
Chars(value) == Write("chars", chars(Here, value), TRUE, value)
TerminatedString(value) ==
  Write("terminatedString", terminatedString(Here, value), TRUE,
        value \o <<0>>)
Bytes(values) == Write("bytes", bytes(Here, values), values # <<>>, values)
Null(n) == Write("null", null(Here, n), n > 0, Zeros(n))

----------------------------------------------------------------------------
(* Explicit growth. *)

(* Variant: adds the bytes asked for, whatever room there already is. *)
ensureClearanceWhole(buf, off, n, fromOffset) ==
  LET o == Coalesce(fromOffset, off)
      clearance == Len(buf) - o
  IN
  IF n < 0 \/ o < 0
    THEN [threw |-> TRUE, buffer |-> buf, ret |-> 0, replaced |-> FALSE]
  ELSE IF n <= clearance
    THEN [threw |-> FALSE, buffer |-> buf, ret |-> 0, replaced |-> FALSE]
  ELSE [threw |-> FALSE, buffer |-> addBytesToBuffer(buf, n),
        ret |-> n, replaced |-> addBytesReplaces(n)]

(* What ensureClearance does to a buffer: whether it throws, the buffer
   it leaves and the number of bytes it returns. *)
ensureClearance(buf, off, n, fromOffset) ==
  LET o == Coalesce(fromOffset, off)
      clearance == Len(buf) - o
      bytesToAdd == n - clearance
  IN
  IF n < 0 \/ o < 0
    THEN [threw |-> TRUE, buffer |-> buf, ret |-> 0, replaced |-> FALSE]
  ELSE IF n <= clearance
    THEN [threw |-> FALSE, buffer |-> buf, ret |-> 0, replaced |-> FALSE]
  ELSE [threw |-> FALSE, buffer |-> addBytesToBuffer(buf, bytesToAdd),
        ret |-> bytesToAdd, replaced |-> addBytesReplaces(bytesToAdd)]

EnsureClearance(n, fromOffset) ==
  LET r == ensureClearance(buffer, offset, n, fromOffset) IN
  /\ CanCall
  /\ buffer' = r.buffer
  /\ err' = r.threw
  /\ last' = [LastRec("ensureClearance", n, 0, r.threw) EXCEPT
                !.ret = r.ret, !.from = fromOffset, !.replaced = r.replaced]
  /\ steps' = steps + 1
  /\ scope' = Settled
  /\ tape' = TapePad(tape, Len(buffer'))
  /\ UNCHANGED <<offset, endianness, dynamicSizing, dynamicChunkSize,
                 dynamicBufferCropSize, dynamicMinimumCropSize, stack>>

(* hasClearance called by the user: the answer is kept by the history. *)
HasClearance(n, fromOffset) ==
  /\ CanCall
  /\ last' = [LastRec("hasClearance", n, 0, FALSE) EXCEPT
                !.ret = hasClearance(buffer, offset, n, fromOffset),
                !.from = fromOffset]
  /\ steps' = steps + 1
  /\ scope' = Settled
  /\ UNCHANGED <<buffer, offset, endianness, dynamicSizing, dynamicChunkSize,
                 dynamicBufferCropSize, dynamicMinimumCropSize, stack, err,
                 tape>>

IncreaseSize(h) ==
  LET throws == ~(IsInteger(h) /\ h >= 0) IN
  /\ CanCall
  /\ buffer' = IF throws THEN buffer ELSE addBytesToBuffer(buffer, Whole(h))
  /\ err' = throws
  /\ last' = [LastRec("increaseSize", h, 0, throws) EXCEPT
                !.replaced = ~throws /\ addBytesReplaces(Whole(h))]
  /\ steps' = steps + 1
  /\ scope' = Settled
  /\ tape' = TapePad(tape, Len(buffer'))
  /\ UNCHANGED <<offset, endianness, dynamicSizing, dynamicChunkSize,
                 dynamicBufferCropSize, dynamicMinimumCropSize, stack>>

----------------------------------------------------------------------------
(* The dynamic-sizing scope. *)

(* Variant: no check for a scope that is already running. *)
withDynamicSizeEnterReentrant(sizing, chunk, crop, minimumCrop, byteLength, chunkArg) ==
  LET chunkSize == Coalesce(chunkArg, 2 * DEFAULT_CHUNK_SIZE) IN
  IF ~(IsInteger(chunkSize) /\ chunkSize > 0) THEN
    [threw |-> TRUE, sizing |-> sizing, chunk |-> chunk, crop |-> crop]
  ELSE
    [threw |-> FALSE, sizing |-> TRUE, chunk |-> Whole(chunkSize),
     crop |-> Coalesce(minimumCrop, byteLength)]

(* Variant: the chunk size is only required to be positive. *)
withDynamicSizeEnterAnyNumber(sizing, chunk, crop, minimumCrop, byteLength, chunkArg) ==
  LET chunkSize == Coalesce(chunkArg, 2 * DEFAULT_CHUNK_SIZE) IN
  IF sizing THEN
    [threw |-> TRUE, sizing |-> sizing, chunk |-> chunk, crop |-> crop]
  ELSE IF ~(chunkSize > 0) THEN
    [threw |-> TRUE, sizing |-> sizing, chunk |-> chunk, crop |-> crop]
  ELSE
    [threw |-> FALSE, sizing |-> TRUE, chunk |-> Max(1, Whole(chunkSize)),
     crop |-> Coalesce(minimumCrop, byteLength)]

(* Variant: the crop size always starts at the byteLength, the minimum crop
   size is ignored. *)
withDynamicSizeEnterNoFloor(sizing, chunk, crop, minimumCrop, byteLength, chunkArg) ==
  LET chunkSize == Coalesce(chunkArg, 2 * DEFAULT_CHUNK_SIZE) IN
  IF sizing THEN
    [threw |-> TRUE, sizing |-> sizing, chunk |-> chunk, crop |-> crop]
  ELSE IF ~(IsInteger(chunkSize) /\ chunkSize > 0) THEN
    [threw |-> TRUE, sizing |-> sizing, chunk |-> chunk, crop |-> crop]
  ELSE
    [threw |-> FALSE, sizing |-> TRUE, chunk |-> Whole(chunkSize),
     crop |-> byteLength]

(* withDynamicSize up to the call of fn: the checks and the three
   assignments.  r.threw says the call threw before running fn. *)
withDynamicSizeEnter(sizing, chunk, crop, minimumCrop, byteLength, chunkArg) ==
  LET chunkSize == Coalesce(chunkArg, 2 * DEFAULT_CHUNK_SIZE) IN
  IF sizing THEN
    [threw |-> TRUE, sizing |-> sizing, chunk |-> chunk, crop |-> crop]
  ELSE IF ~(IsInteger(chunkSize) /\ chunkSize > 0) THEN
    [threw |-> TRUE, sizing |-> sizing, chunk |-> chunk, crop |-> crop]
  ELSE
    [threw |-> FALSE, sizing |-> TRUE, chunk |-> Whole(chunkSize),
     crop |-> Coalesce(minimumCrop, byteLength)]

(* Variant: the controller is left switched on. *)
withDynamicSizeLeaveActive(e) ==
  LET cropped == IF e.crop < Len(e.buffer)
                   THEN cropBuffer(e.buffer, e.crop)
                   ELSE e.buffer
  IN [sizing |-> TRUE, chunk |-> DEFAULT_CHUNK_SIZE, buffer |-> cropped,
      crop |-> 0,
      replaced |-> e.crop < Len(e.buffer) /\ cropReplaces(e.crop),
      offset |-> IF e.offset > Len(cropped) THEN Len(cropped) ELSE e.offset]

(* Variant: the offset is clamped to the length before cropping. *)
withDynamicSizeLeaveClampFirst(e) ==
  LET cropped == IF e.crop < Len(e.buffer)
                   THEN cropBuffer(e.buffer, e.crop)
                   ELSE e.buffer
  IN [sizing |-> FALSE, chunk |-> DEFAULT_CHUNK_SIZE, buffer |-> cropped,
      crop |-> 0,
      replaced |-> e.crop < Len(e.buffer) /\ cropReplaces(e.crop),
      offset |-> IF e.offset > Len(e.buffer) THEN Len(e.buffer) ELSE e.offset]

(* Variant: the buffer is cropped also when it is as long as the crop
   size. *)
withDynamicSizeLeaveCropsEqual(e) ==
  LET cropped == IF e.crop <= Len(e.buffer)
                   THEN cropBuffer(e.buffer, e.crop)
                   ELSE e.buffer
  IN [sizing |-> FALSE, chunk |-> DEFAULT_CHUNK_SIZE, buffer |-> cropped,
      crop |-> 0,
      replaced |-> e.crop <= Len(e.buffer) /\ cropReplaces(e.crop),
      offset |-> IF e.offset > Len(cropped) THEN Len(cropped) ELSE e.offset]

(* Variant: the buffer is left as long as it has grown. *)
withDynamicSizeLeaveUncropped(e) ==
  [sizing |-> FALSE, chunk |-> DEFAULT_CHUNK_SIZE, buffer |-> e.buffer,
   crop |-> 0, replaced |-> FALSE,
   offset |-> IF e.offset > Len(e.buffer) THEN Len(e.buffer) ELSE e.offset]

(* withDynamicSize after fn has returned, on the encoder as fn left it:
   reset, crop, clamp. *)
withDynamicSizeLeave(e) ==
  LET cropped == IF e.crop < Len(e.buffer)
                   THEN cropBuffer(e.buffer, e.crop)
                   ELSE e.buffer
  IN [sizing |-> FALSE, chunk |-> DEFAULT_CHUNK_SIZE, buffer |-> cropped,
      crop |-> 0,
      replaced |-> e.crop < Len(e.buffer) /\ cropReplaces(e.crop),
      offset |-> IF e.offset > Len(cropped) THEN Len(cropped) ELSE e.offset]

WithDynamicSize(chunkArg) ==
  LET r == withDynamicSizeEnter(dynamicSizing, dynamicChunkSize,
                                dynamicBufferCropSize, dynamicMinimumCropSize,
                                Len(buffer), chunkArg)
  IN
  /\ CanCall
  /\ Len(stack) < MaxDepth
  /\ dynamicSizing' = r.sizing
  /\ dynamicChunkSize' = r.chunk
  /\ dynamicBufferCropSize' = r.crop
  /\ err' = r.threw
  /\ stack' = IF r.threw THEN stack ELSE Append(stack, Frame("withDynamicSize"))
  /\ scope' = IF ~r.threw
                THEN NewScope("withDynamicSize", chunkArg,
                              Whole(Coalesce(chunkArg, 2 * DEFAULT_CHUNK_SIZE)),
                              Len(buffer))
                ELSE IF scope.open
                  THEN [scope EXCEPT !.nested = TRUE,
                                     !.nestedLen = Len(buffer)]
                ELSE Settled
  /\ last' = LastRec("withDynamicSize", chunkArg, 0, r.threw)
  /\ steps' = steps + 1
  /\ UNCHANGED <<buffer, offset, endianness, dynamicMinimumCropSize, tape>>

WithDynamicSizeReturn ==
  LET r == withDynamicSizeLeave(Here) IN
  /\ ~err
  /\ stack # <<>>
  /\ Top.kind \in {"withDynamicSize", "dynamicallySized"}
  /\ dynamicSizing' = r.sizing
  /\ dynamicChunkSize' = r.chunk
  /\ buffer' = r.buffer
  /\ dynamicBufferCropSize' = r.crop
  /\ offset' = r.offset
  /\ dynamicMinimumCropSize' =
       IF Top.kind = "dynamicallySized" THEN <<>> ELSE dynamicMinimumCropSize
  /\ stack' = Front(stack)
  /\ scope' = [scope EXCEPT !.open = FALSE, !.exitOffset = offset]
  /\ tape' = SubSeq(tape, 1, Min(Len(tape), Len(r.buffer)))
  /\ last' = [LastRec("returnDynamic", 0, 0, FALSE) EXCEPT
                !.replaced = r.replaced]
  /\ UNCHANGED <<endianness, err, steps>>

(* BinaryEncoder.dynamicallySized up to the call of the builder.  The new
   encoder replaces the modelled one once the builder runs on it; when the
   call throws no encoder is handed out and nothing changes. *)
DynamicallySized(chunkArg, minimumArg, initialOffset, endian) ==
  LET chunkSize == Coalesce(chunkArg, 2 * DEFAULT_CHUNK_SIZE)
      minimumSize == Coalesce(minimumArg, 0)
      badMinimum == ~(IsInteger(minimumSize) /\ minimumSize >= 0)
      initialSize == Max(chunkSize, minimumSize)
      badAlloc == ~(IsInteger(initialSize) /\ initialSize >= 0)
      r == withDynamicSizeEnter(FALSE, DEFAULT_CHUNK_SIZE, 0,
                                <<Whole(minimumSize)>>, Whole(initialSize),
                                <<chunkSize>>)
      throws == badMinimum \/ badAlloc \/ r.threw
  IN
  /\ ~err
  /\ steps = 0
  /\ err' = throws
  /\ last' = [LastRec("dynamicallySized", chunkArg, 0, throws)
                EXCEPT !.ret = minimumArg]
  /\ IF throws
       THEN UNCHANGED <<buffer, offset, endianness, dynamicSizing,
                        dynamicChunkSize, dynamicBufferCropSize,
                        dynamicMinimumCropSize, stack, scope, tape, steps>>
       ELSE /\ buffer' = Zeros(Whole(initialSize))
            /\ offset' = initialOffset
            /\ endianness' = endian
            /\ dynamicMinimumCropSize' = <<Whole(minimumSize)>>
            /\ dynamicSizing' = r.sizing
            /\ dynamicChunkSize' = r.chunk
            /\ dynamicBufferCropSize' = r.crop
            /\ stack' = <<[kind |-> "dynamicallySized",
                           savedOffset |-> initialOffset,
                           savedEndianness |-> endian]>>
            /\ scope' = [NewScope("dynamicallySized", chunkArg,
                                  Whole(chunkSize), Whole(minimumSize))
                           EXCEPT !.prevChunk = 0]
            /\ tape' = Zeros(Whole(initialSize))
            /\ steps' = 1

----------------------------------------------------------------------------
(* The scoped helpers of the base class: the call up to fn(), and the code
   after fn() has returned. *)

WithOffset(pos) ==
  /\ CanCall
  /\ Len(stack) < MaxDepth
  /\ stack' = Append(stack, Frame("withOffset"))
  /\ offset' = pos
  /\ last' = LastRec("withOffset", pos, 0, FALSE)
  /\ steps' = steps + 1
  /\ UNCHANGED <<buffer, endianness, dynamicSizing, dynamicChunkSize,
                 dynamicBufferCropSize, dynamicMinimumCropSize, err, scope,
                 tape>>

SaveOffset ==
  /\ CanCall
  /\ Len(stack) < MaxDepth
  /\ stack' = Append(stack, Frame("saveOffset"))
  /\ last' = LastRec("saveOffset", 0, 0, FALSE)
  /\ steps' = steps + 1
  /\ UNCHANGED <<buffer, offset, endianness, dynamicSizing, dynamicChunkSize,
                 dynamicBufferCropSize, dynamicMinimumCropSize, err, scope,
                 tape>>

OffsetReturn ==
  /\ ~err
  /\ stack # <<>>
  /\ Top.kind \in {"withOffset", "saveOffset"}
  /\ offset' = Top.savedOffset
  /\ stack' = Front(stack)
  /\ last' = LastRec("returnOffset", Top.savedOffset, 0, FALSE)
  /\ UNCHANGED <<buffer, endianness, dynamicSizing, dynamicChunkSize,
                 dynamicBufferCropSize, dynamicMinimumCropSize, err, scope,
                 tape, steps>>

WithEndianness(e) ==
  /\ CanCall
  /\ Len(stack) < MaxDepth
  /\ stack' = Append(stack, Frame("withEndianness"))
  /\ endianness' = e
  /\ last' = LastRec("withEndianness", 0, 0, FALSE)
  /\ steps' = steps + 1
  /\ UNCHANGED <<buffer, offset, dynamicSizing, dynamicChunkSize,
                 dynamicBufferCropSize, dynamicMinimumCropSize, err, scope,
                 tape>>

SaveEndianness ==
  /\ CanCall
  /\ Len(stack) < MaxDepth
  /\ stack' = Append(stack, Frame("saveEndianness"))
  /\ last' = LastRec("saveEndianness", 0, 0, FALSE)
  /\ steps' = steps + 1
  /\ UNCHANGED <<buffer, offset, endianness, dynamicSizing, dynamicChunkSize,
                 dynamicBufferCropSize, dynamicMinimumCropSize, err, scope,
                 tape>>

EndiannessReturn ==
  /\ ~err
  /\ stack # <<>>
  /\ Top.kind \in {"withEndianness", "saveEndianness"}
  /\ endianness' = Top.savedEndianness
  /\ stack' = Front(stack)
  /\ last' = LastRec("returnEndianness", Top.savedEndianness, 0, FALSE)
  /\ UNCHANGED <<buffer, offset, dynamicSizing, dynamicChunkSize,
                 dynamicBufferCropSize, dynamicMinimumCropSize, err, scope,
                 tape, steps>>

----------------------------------------------------------------------------
(* Errors.  None of the scoped methods has a try / finally: an error thrown
   inside fn leaves the method at the call of fn. *)

(* The error leaves the innermost callback and the method that called it. *)
Propagate ==
  /\ err
  /\ stack # <<>>
  /\ stack' = Front(stack)
  /\ scope' = IF Top.kind \in {"withDynamicSize", "dynamicallySized"}
                THEN [scope EXCEPT !.open = FALSE, !.clean = FALSE]
                ELSE scope
  /\ last' = [LastRec("abort", Top, 0, TRUE) EXCEPT !.ret = Top.kind]
  /\ UNCHANGED <<buffer, offset, endianness, dynamicSizing, dynamicChunkSize,
                 dynamicBufferCropSize, dynamicMinimumCropSize, err, tape,
                 steps>>

(* The error is caught: by a try / catch in the running callback, or by the
   caller of the outermost method. *)
Catch ==
  /\ err
  /\ err' = FALSE
  /\ UNCHANGED <<buffer, offset, endianness, dynamicSizing, dynamicChunkSize,
                 dynamicBufferCropSize, dynamicMinimumCropSize, stack, scope,
                 tape, last, steps>>

----------------------------------------------------------------------------

(* The encoder with its dynamic-sizing controller. *)
Next ==
  \/ \E pos \in SeekTargets : seek(pos)
  \/ \E n \in SkipAmounts : skip(n)
  \/ \E v \in Uint8Values : Uint8(v)
  \/ \E value \in CharsValues : Chars(value)
  \/ \E n \in NullCounts : Null(n)
  \/ \E a \in ClearanceArgs : EnsureClearance(a[1], a[2])
  \/ \E h \in IncreaseArgs : IncreaseSize(h)
  \/ \E c \in ChunkArgs : WithDynamicSize(c)
  \/ WithDynamicSizeReturn
  \/ \E a \in SizedArgs : DynamicallySized(a[1], a[2], 0, "LE")
  \/ Propagate
  \/ Catch

Spec == Init /\ [][Next]_vars

(* The cursor with the scoped helpers of the base class. *)
NextScoped ==
  \/ \E pos \in SeekTargets : seek(pos)
  \/ \E n \in SkipAmounts : skip(n)
  \/ \E e \in Endians : setEndianness(e)
  \/ \E v \in Uint8Values : Uint8(v)
  \/ \E v \in Uint16Values : Uint16(v)
  \/ \E pos \in {0, 3} : WithOffset(pos)
  \/ SaveOffset
  \/ OffsetReturn
  \/ \E e \in Endians : WithEndianness(e)
  \/ SaveEndianness
  \/ EndiannessReturn
  \/ Propagate
  \/ Catch

SpecScoped == Init /\ [][NextScoped]_vars

----------------------------------------------------------------------------
(* BitMasking (bit-masking.ts).

   A JavaScript value is a record: kind "number" or "bigint", the integer n,
   and for a number whether it stands for n + 0.5.  A list of bit masks is
   given in halves like the other numeric arguments.  Numbers are kept in
   the 32-bit range of the << operator. *)

BIGINT_THRESHOLD == 56

Num(n) == [n |-> n, kind |-> "number", frac |-> FALSE]
Frac(n) == [n |-> n, kind |-> "number", frac |-> TRUE]
Big(n) == [n |-> n, kind |-> "bigint", frac |-> FALSE]

(* Number.isInteger: false for every value that is not a number. *)
NumberIsInteger(v) == v.kind = "number" /\ ~v.frac

MinInt32 == -(2^30) - 2^30

(* x << s on numbers, for 0 <= x < 2^31: the shift count is s mod 32 and the
   result is the signed 32-bit integer with the bits that survive. *)
Shl32(x, s) ==
  LET c == s % 32 IN
  IF c = 0 THEN x
  ELSE LET low == IF c = 1 THEN x ELSE x % (2^(32 - c))
           top == 2^(31 - c)
       IN IF low >= top
            THEN (IF c = 31 THEN 0 ELSE (low - top) * 2^c) + MinInt32
          ELSE IF low = 0 THEN 0
          ELSE low * 2^c

(* n >> k and n & (2^k - 1) on BigInt (exact, two's complement); LowBits with
   k >= 31 is taken on n >= 0 only. *)
ShiftRight(n, k) == IF k >= 31 THEN (IF n < 0 THEN -1 ELSE 0) ELSE n \div (2^k)
LowBits(n, k) == IF k >= 31 THEN n ELSE n % (2^k)

RECURSIVE SumSeq(_)
SumSeq(q) == IF q = <<>> THEN 0 ELSE Head(q) + SumSeq(Tail(q))

MaskErrors ==
  {"Bit mask list cannot be empty", "Bit masks must be positive integers",
   "Bit masks must add to bits"}
ValueErrors ==
  {"Value must be provided for every bit mask",
   "Values must be non-negative integers", "Value does not fit in mask"}

(* Variant: the sum is compared before the masks are looked at. *)
validateMasksSumFirst(bits, masks) ==
  IF Len(masks) < 1 THEN "Bit mask list cannot be empty"
  ELSE IF SumSeq(masks) # 2 * bits THEN "Bit masks must add to bits"
  ELSE IF \E i \in DOMAIN masks : ~(IsInteger(masks[i]) /\ masks[i] > 0)
    THEN "Bit masks must be positive integers"
  ELSE "ok"

(* _validateMasks: "ok" or the error it throws. *)
validateMasks(bits, masks) ==
  IF Len(masks) < 1 THEN "Bit mask list cannot be empty"
  ELSE IF \E i \in DOMAIN masks : ~(IsInteger(masks[i]) /\ masks[i] > 0)
    THEN "Bit masks must be positive integers"
  ELSE IF SumSeq(masks) # 2 * bits THEN "Bit masks must add to bits"
  ELSE "ok"

(* _validateValues, called with validated masks: "ok" or the error it
   throws.  value > ((1 << mask) - 1) is written value >= (1 << mask), the
   same on integers, so that no operand leaves the 32-bit range. *)
validateValues(masks, values) ==
  IF Len(values) # Len(masks)
    THEN "Value must be provided for every bit mask"
  ELSE IF \E i \in DOMAIN values :
            ~(NumberIsInteger(values[i]) /\ values[i].n >= 0)
    THEN "Values must be non-negative integers"
  ELSE IF \E i \in DOMAIN values : values[i].n >= Shl32(1, Whole(masks[i]))
    THEN "Value does not fit in mask"
  ELSE "ok"

(* values.forEach of encode on numbers, from index i on. *)
RECURSIVE combine(_, _, _, _)
combine(masks, values, i, remainingBits) ==
  IF i > Len(values) THEN 0
  ELSE LET numBits == Whole(masks[i])
           bitShift == remainingBits - numBits
       IN Shl32(values[i].n, bitShift)
            + combine(masks, values, i + 1, bitShift)

(* BitMasking.encode.  With bits >= 56 the first value, a number once it
   has passed _validateValues, is shifted by a BigInt, which throws. *)
encode(bits, masks, values) ==
  LET m == validateMasks(bits, masks)
      v == validateValues(masks, values)
  IN IF m # "ok" THEN [threw |-> TRUE, error |-> m, value |-> Num(0)]
     ELSE IF v # "ok" THEN [threw |-> TRUE, error |-> v, value |-> Num(0)]
     ELSE IF bits >= BIGINT_THRESHOLD
       THEN [threw |-> TRUE, error |-> "Cannot mix BigInt and other types",
             value |-> Num(0)]
     ELSE [threw |-> FALSE, error |-> "",
           value |-> Num(combine(masks, values, 1, bits))]

(* A value beyond the range of the integers used here is held as its binary
   numeral: `wide` is a sequence of bits, most significant first, as long as
   the integer type is wide. *)
NumWide(bs) == [n |-> 0, kind |-> "number", frac |-> FALSE, wide |-> bs]
BigWide(bs) == [n |-> 0, kind |-> "bigint", frac |-> FALSE, wide |-> bs]
IsWide(v) == "wide" \in DOMAIN v

(* BigInt arithmetic on binary numerals of one length: (1n << k) - 1n,
   a << k, a & b and a >> k.  No bit of a mask is shifted out of the
   numeral, since numBits + remainingBits never exceeds the bit size. *)
OnesBits(len, k) == [i \in 1..len |-> IF i > len - k THEN 1 ELSE 0]
ShlBits(a, k) == [i \in 1..Len(a) |-> IF i + k <= Len(a) THEN a[i + k] ELSE 0]
AndBits(a, b) == [i \in 1..Len(a) |-> a[i] * b[i]]
ShrBits(a, k) == [i \in 1..Len(a) |-> IF i - k >= 1 THEN a[i - k] ELSE 0]

(* masks.map of decode on a binary numeral, from index i on. *)
RECURSIVE wideSegments(_, _, _, _)
wideSegments(masks, bs, i, remainingBits) ==
  IF i > Len(masks) THEN <<>>
  ELSE LET numBits == Whole(masks[i])
           remaining == remainingBits - numBits
           mask == ShlBits(OnesBits(Len(bs), numBits), remaining)
       IN <<ShrBits(AndBits(bs, mask), remaining)>>
            \o wideSegments(masks, bs, i + 1, remaining)

(* Variant: the field is taken before remainingBits is lowered. *)
RECURSIVE segmentsEarly(_, _, _, _)
segmentsEarly(masks, n, i, remainingBits) ==
  IF i > Len(masks) THEN <<>>
  ELSE LET numBits == Whole(masks[i])
           remaining == remainingBits - numBits
       IN <<LowBits(ShiftRight(n, remainingBits), numBits)>>
            \o segmentsEarly(masks, n, i + 1, remaining)

(* masks.map of decode, from index i on. *)
RECURSIVE segments(_, _, _, _)
segments(masks, n, i, remainingBits) ==
  IF i > Len(masks) THEN <<>>
  ELSE LET numBits == Whole(masks[i])
           remaining == remainingBits - numBits
       IN <<LowBits(ShiftRight(n, remaining), numBits)>>
            \o segments(masks, n, i + 1, remaining)

(* BitMasking.decode: the segments have the type of the value. *)
decode(bits, masks, value) ==
  LET m == validateMasks(bits, masks) IN
  IF m # "ok" THEN [threw |-> TRUE, error |-> m, values |-> <<>>]
  ELSE IF IsWide(value)
    THEN LET segs == wideSegments(masks, value.wide, 1, bits) IN
         [threw |-> FALSE, error |-> "",
          values |-> [i \in DOMAIN segs |-> [value EXCEPT !.wide = segs[i]]]]
  ELSE LET segs == segments(masks, value.n, 1, bits) IN
       [threw |-> FALSE, error |-> "",
        values |-> [i \in DOMAIN segs |-> [value EXCEPT !.n = segs[i]]]]

(* Arguments. *)
MaskingBits == {8, 16, 32, 64}

MaskLists(bits) ==
  {<<>>, <<2 * bits>>, <<2, 2 * bits - 2>>, <<2, 4, 2 * bits - 6>>,
   <<2 * bits - 2, 2>>, <<bits, bits>>, <<4, 2 * bits - 4>>, <<6, 8>>,
   <<-2, 2 * bits + 2>>, <<0, 2 * bits>>, <<3, 2 * bits - 3>>, <<-2, 6>>}

(* The largest value of w bits that is a 32-bit number. *)
MaxValue(w) == IF w >= 31 THEN 2147483647 ELSE 2^w - 1

(* Values tried for one mask: small ones, the largest that fits and the
   first that does not. *)
Candidates(mask) ==
  LET w == IF IsInteger(mask) /\ mask > 0 THEN Whole(mask) ELSE 1 IN
  {Num(0), Num(1), Num(MaxValue(w))}
    \cup (IF w >= 31 THEN {} ELSE {Num(MaxValue(w) + 1)})

OddValues == {Frac(1), Num(-1), Big(0), Big(1)}

ValueLists(masks) ==
  LET zeros == [i \in DOMAIN masks |-> Num(0)]
      atoms == UNION {Candidates(masks[i]) : i \in DOMAIN masks}
  IN {f \in [DOMAIN masks -> atoms] :
        \A i \in DOMAIN masks : f[i] \in Candidates(masks[i])}
     \cup {[zeros EXCEPT ![i] = v] : i \in DOMAIN masks, v \in OddValues}
     \cup {[i \in DOMAIN masks |-> Big(1)]}
     \cup {Append(zeros, Num(0))}
     \cup (IF masks = <<>> THEN {} ELSE {Tail(zeros)})
     \cup (IF masks = <<2, 14>> THEN {<<Num(1), Num(100)>>} ELSE {})

(* Binary numerals of `bits` bits with the most significant bit set: all
   ones, the two ends, and every other bit. *)
WideNumerals(bits) ==
  {[i \in 1..bits |-> 1],
   [i \in 1..bits |-> IF i \in {1, bits} THEN 1 ELSE 0],
   [i \in 1..bits |-> i % 2]}

(* What a read hands to decode: a number up to 32 bits, a bigint for 64. *)
DecodeValues(bits) ==
  {Num(0), Num(1), Num(MaxValue(bits)), Big(0), Big(5), Big(MaxValue(bits))}
    \cup (IF bits = 32 THEN {NumWide(bs) : bs \in WideNumerals(bits)} ELSE {})
    \cup (IF bits = 64 THEN {BigWide(bs) : bs \in WideNumerals(bits)} ELSE {})

(* A call of BitMasking.encode; one call is followed from each start. *)
Encode(bits, masks, values) ==
  LET r == encode(bits, masks, values) IN
  /\ ~err /\ last.op = "new"
  /\ last' = [LastRec("encode", <<bits, masks, values>>, 0, r.threw)
                EXCEPT !.ret = r]
  /\ UNCHANGED <<encVars, stack, err, scope, tape, steps>>

(* A call of BitMasking.decode. *)
Decode(bits, masks, value) ==
  LET r == decode(bits, masks, value) IN
  /\ ~err /\ last.op = "new"
  /\ last' = [LastRec("decode", <<bits, masks, value>>, 0, r.threw)
                EXCEPT !.ret = r]
  /\ UNCHANGED <<encVars, stack, err, scope, tape, steps>>

(* BitMasking.decode called with what the last encode returned. *)
DecodeEncoded ==
  LET r == decode(last.arg[1], last.arg[2], last.ret.value) IN
  /\ ~err
  /\ last.op = "encode" /\ ~last.threw
  /\ last' = [last EXCEPT !.op = "decodeEncoded", !.threw = r.threw,
                          !.ret = r]
  /\ UNCHANGED <<encVars, stack, err, scope, tape, steps>>

NextMasking ==
  \/ \E bits \in MaskingBits : \E masks \in MaskLists(bits) :
       \E values \in ValueLists(masks) : Encode(bits, masks, values)
  \/ \E bits \in MaskingBits : \E masks \in MaskLists(bits) :
       \E value \in DecodeValues(bits) : Decode(bits, masks, value)
  \/ DecodeEncoded

SpecMasking == Init /\ [][NextMasking]_vars

----------------------------------------------------------------------------
(* What the arguments of an encode / decode call mean, taken as
   mathematical integers. *)

ArgBits == last.arg[1]
ArgMasks == last.arg[2]
ArgValues == last.arg[3]

(* masks is a partition of the bits into positive integer widths. *)
GoodMasks(bits, masks) ==
  /\ masks # <<>>
  /\ \A i \in DOMAIN masks : masks[i] % 2 = 0 /\ masks[i] \div 2 >= 1
  /\ SumSeq(masks) \div 2 = bits /\ SumSeq(masks) % 2 = 0

(* 0 <= v <= 2^mask - 1 for an integer v (a number or a bigint). *)
FitsMask(mask, v) ==
  /\ ~v.frac /\ v.n >= 0
  /\ mask \div 2 >= 31 \/ v.n <= 2^(mask \div 2) - 1

FittingValues(masks, values) ==
  /\ Len(values) = Len(masks)
  /\ \A i \in DOMAIN values : FitsMask(masks[i], values[i])

AllNumbers(values) == \A i \in DOMAIN values : values[i].kind = "number"

(* What the mask list is rejected with, if it is. *)
ExpectedMaskError(bits, masks) ==
  IF masks = <<>> THEN "Bit mask list cannot be empty"
  ELSE IF \E i \in DOMAIN masks : masks[i] % 2 # 0 \/ masks[i] <= 0
    THEN "Bit masks must be positive integers"
  ELSE IF ~GoodMasks(bits, masks) THEN "Bit masks must add to bits"
  ELSE "ok"

(* The number of bits to the right of field i. *)
BitsBelow(masks, i) == SumSeq(SubSeq(masks, i + 1, Len(masks))) \div 2

(* The packed value can be computed here: every non-zero field ends at or
   below bit 30. *)
Packable(masks, values) ==
  \A i \in DOMAIN values :
    values[i].n = 0 \/ BitsBelow(masks, i) + masks[i] \div 2 <= 30

RECURSIVE Packed(_, _, _)
Packed(masks, values, i) ==
  IF i > Len(values) THEN 0
  ELSE (IF values[i].n = 0 THEN 0 ELSE values[i].n * 2^BitsBelow(masks, i))
         + Packed(masks, values, i + 1)

----------------------------------------------------------------------------
(* Integer writes given maskings. *)

(* Buffer.prototype.writeUInt*: also throws, storing nothing, when the value
   is negative. *)
bufferWriteUInt(e, n, bs) ==
  IF n < 0 THEN [e EXCEPT !.threw = TRUE] ELSE bufferWriteNumber(e, bs)

(* _number given maskings: resize, encode, write. *)
numberMasked(e, numBytes, masks, values) ==
  LET e1 == resizeIfDynamic(e, numBytes)
      r == encode(numBytes * 8, masks, values)
  IN IF r.threw THEN [e1 EXCEPT !.threw = TRUE]
     ELSE bufferWriteUInt(e1, r.value.n,
            resolveEndian(endianness, BytesLE(r.value.n, numBytes),
                          BytesBE(r.value.n, numBytes)))

(* The bytes an unsigned integer of numBytes bytes made of the values should
   be stored as, when the value can be computed here. *)
PackedBytes(numBytes, masks, values) ==
  LET n == Packed(masks, values, 1) IN
  IF endianness = "LE" THEN BytesLE(n, numBytes) ELSE BytesBE(n, numBytes)

(* uint8 / uint16 / uint32 / uint64 given maskings.  The history counts the
   write, and expects its bytes, when the maskings are valid. *)
WriteMasked(op, numBytes, masks, values) ==
  LET e2 == numberMasked(Here, numBytes, masks, values)
      r == encode(numBytes * 8, masks, values)
      valid == /\ GoodMasks(numBytes * 8, masks)
               /\ FittingValues(masks, values)
  IN
  /\ CanCall
  /\ buffer' = e2.buffer
  /\ offset' = e2.offset
  /\ dynamicBufferCropSize' = e2.crop
  /\ err' = e2.threw
  /\ scope' = IF scope.open
                THEN [scope EXCEPT
                        !.hwm = IF valid THEN Max(@, offset + numBytes) ELSE @,
                        !.clean = @ /\ ~e2.threw]
                ELSE Settled
  /\ tape' = TapePad(IF ~e2.threw
                       THEN TapeStore(tape, offset,
                                      PackedBytes(numBytes, masks, values))
                       ELSE tape,
                     Len(e2.buffer))
  /\ last' = [LastRec(op, <<numBytes * 8, masks, values>>, numBytes, e2.threw)
                EXCEPT !.ret = r, !.replaced = e2.replaced]
  /\ steps' = steps + 1
  /\ UNCHANGED <<endianness, dynamicSizing, dynamicChunkSize,
                 dynamicMinimumCropSize, stack>>

Uint8Masked(masks, values) == WriteMasked("uint8Masked", 1, masks, values)
Uint32Masked(masks, values) == WriteMasked("uint32Masked", 4, masks, values)
Uint64Masked(masks, values) == WriteMasked("uint64Masked", 8, masks, values)

(* Maskings written: valid ones, masks that do not add up, a value that
   does not fit. *)
MaskedCases(bits) ==
  {<<<<bits, bits>>, <<Num(1), Num(1)>>>>,
   <<<<6, 8>>, <<Num(0), Num(0)>>>>,
   <<<<2, 2 * bits - 2>>, <<Num(2), Num(0)>>>>}

WriteCharsValues == {<<97, 98>>}
WriteChunkArgs == {<<4>>}

NextWrites ==
  \/ \E pos \in SeekTargets : seek(pos)
  \/ \E v \in Uint8Values : Uint8(v)
  \/ \E v \in Uint16Values : Uint16(v)
  \/ \E v \in Uint32Values : Uint32(v)
  \/ \E v \in Uint64Values : Uint64(v)
  \/ \E value \in WriteCharsValues : Chars(value)
  \/ \E value \in StringValues : TerminatedString(value)
  \/ \E values \in BytesValues : Bytes(values)
  \/ \E n \in NullCounts : Null(n)
  \/ \E c \in MaskedCases(8) : Uint8Masked(c[1], c[2])
  \/ \E c \in MaskedCases(32) : Uint32Masked(c[1], c[2])
  \/ \E c \in MaskedCases(64) : Uint64Masked(c[1], c[2])
  \/ \E c \in WriteChunkArgs : WithDynamicSize(c)
  \/ WithDynamicSizeReturn
  \/ Propagate
  \/ Catch

SpecWrites == Init /\ [][NextWrites]_vars

----------------------------------------------------------------------------
(* Clearance: asking for it and making it. *)

ClearanceBytes == -1..(MaxInitLen + 1)
ClearanceOffsets == {<<>>} \cup {<<o>> : o \in -1..(MaxInitLen + 1)}
ClearanceSeeks == {-1, 1, MaxInitLen}

NextClearance ==
  \/ \E p \in ClearanceSeeks : seek(p)
  \/ \E n \in ClearanceBytes, f \in ClearanceOffsets : HasClearance(n, f)
  \/ \E n \in ClearanceBytes, f \in ClearanceOffsets : EnsureClearance(n, f)
  \/ \E h \in IncreaseArgs : IncreaseSize(h)
  \/ \E v \in Uint8Values : Uint8(v)
  \/ Catch

SpecClearance == Init /\ [][NextClearance]_vars

----------------------------------------------------------------------------
(* Byte order: multi-byte writes while the endianness is changed. *)

EndianRoom == {8}                \* increaseSize argument in halves: 4 bytes
EndianSeeks == {0, 1}

NextEndian ==
  \/ \E h \in EndianRoom : IncreaseSize(h)
  \/ \E pos \in EndianSeeks : seek(pos)
  \/ \E e \in Endians : setEndianness(e)
  \/ \E e \in Endians : WithEndianness(e)
  \/ EndiannessReturn
  \/ \E v \in Uint16Values : Uint16(v)
  \/ \E v \in Uint32Values : Uint32(v)
  \/ Propagate
  \/ Catch

SpecEndian == Init /\ [][NextEndian]_vars

----------------------------------------------------------------------------
(* A builder run as a whole: the same calls made on an encoder that sizes
   itself and on one of a fixed size. *)

MaxScript == MaxSteps - 1        \* calls a builder makes

(* BinaryEncoder.alloc(size): offset 0, little-endian, no dynamic sizing. *)
alloc(size) ==
  [buffer |-> Zeros(size), offset |-> 0, crop |-> 0, sizing |-> FALSE,
   chunk |-> DEFAULT_CHUNK_SIZE, threw |-> FALSE, replaced |-> FALSE]

(* One call made on the encoder e; the arguments of a call are a tuple. *)
call(e, c) ==
  CASE c.op = "seek" -> setOffset(e, c.arg[1])
    [] c.op = "skip" -> setOffset(e, e.offset + c.arg[1])
    [] c.op = "uint8" -> uint8(e, c.arg[1])
    [] c.op = "uint16" -> uint16(e, c.arg[1])
    [] c.op = "chars" -> chars(e, c.arg)
    [] c.op = "null" -> null(e, c.arg[1])

(* The calls of a function made in turn; an error leaves the function. *)
RECURSIVE builder(_, _)
builder(e, script) ==
  IF script = <<>> \/ e.threw THEN e
  ELSE builder(call(e, Head(script)), Tail(script))

(* BinaryEncoder.dynamicallySized({ chunkSize, builder }): the encoder it
   returns, or threw when the builder raised. *)
dynamicallySized(chunkSize, script) ==
  LET minimumSize == 0
      initialSize == Max(chunkSize, minimumSize)
      r == withDynamicSizeEnter(FALSE, DEFAULT_CHUNK_SIZE, 0, <<minimumSize>>,
                                initialSize, <<2 * chunkSize>>)
      e0 == [alloc(initialSize) EXCEPT !.sizing = r.sizing, !.chunk = r.chunk,
                                       !.crop = r.crop]
      e1 == IF r.threw THEN [e0 EXCEPT !.threw = TRUE] ELSE builder(e0, script)
      left == withDynamicSizeLeave(e1)
  IN IF e1.threw THEN e1
     ELSE [e1 EXCEPT !.sizing = left.sizing, !.chunk = left.chunk,
                     !.buffer = left.buffer, !.crop = left.crop,
                     !.offset = left.offset]

ScriptCalls ==
  {[op |-> "seek", arg |-> <<3>>], [op |-> "skip", arg |-> <<-1>>],
   [op |-> "uint8", arg |-> <<1>>], [op |-> "uint16", arg |-> <<258>>],
   [op |-> "chars", arg |-> <<97, 98>>], [op |-> "chars", arg |-> <<>>],
   [op |-> "null", arg |-> <<2>>]}

Scripts == UNION {[1..n -> ScriptCalls] : n \in 0..MaxScript}

(* Pairs of chunk sizes. *)
ChunkPairs == {<<1, 2>>, <<2, 3>>, <<1, 3>>, <<2, DEFAULT_CHUNK_SIZE>>}

(* The builder is run by dynamicallySized with two chunk sizes and then on
   an encoder allocated with the length the first run ended with. *)
RunBuilder(script, chunks) ==
  LET a == dynamicallySized(chunks[1], script)
      b == dynamicallySized(chunks[2], script)
      fixed == builder(alloc(Len(a.buffer)), script)
  IN
  /\ ~err /\ last.op = "new"
  /\ last' = [LastRec("builder", script, 0, a.threw) EXCEPT
                !.ret = [a |-> a, b |-> b, fixed |-> fixed],
                !.from = chunks]
  /\ UNCHANGED <<encVars, stack, err, scope, tape, steps>>

NextBuilder ==
  /\ last.op = "new"
  /\ \E script \in Scripts, chunks \in ChunkPairs : RunBuilder(script, chunks)

SpecBuilder == Init /\ [][NextBuilder]_vars

----------------------------------------------------------------------------
(* BinaryDecoder *)

(* The decoder's fields, whether a read has thrown and what it returned. *)
BinaryDecoder(buf, initialOffset, en) ==
  [buffer |-> buf, offset |-> initialOffset, endianness |-> en,
   threw |-> FALSE, ret |-> <<>>]

(* The decoder as the state holds it. *)
Coder == BinaryDecoder(buffer, offset, endianness)

Reverse(s) == [i \in 1..Len(s) |-> s[Len(s) + 1 - i]]

(* UTF-8 decoding of the bytes used here: a byte below 128 is its character,
   a byte that begins no UTF-8 sequence (255) becomes U+FFFD. *)
REPLACEMENT_CHARACTER == 65533
utf8Decode(bs) ==
  [i \in 1..Len(bs) |-> IF bs[i] < 128 THEN bs[i] ELSE REPLACEMENT_CHARACTER]

(* Buffer.prototype.toString(encoding, start, end): start and end are
   clamped to the buffer; nothing when end is not after start. *)
bufferToString(buf, start, end) ==
  LET s == Max(start, 0)
      e == Min(end, Len(buf))
  IN IF e <= s THEN <<>> ELSE utf8Decode(SubSeq(buf, s + 1, e))

(* Buffer.prototype.subarray(start, end): a negative index counts from the
   end, both are clamped to the buffer. *)
bufferSubarray(buf, start, end) ==
  LET rel(i) == IF i < 0 THEN Max(Len(buf) + i, 0) ELSE Min(i, Len(buf))
  IN IF rel(end) <= rel(start) THEN <<>>
     ELSE SubSeq(buf, rel(start) + 1, rel(end))

(* The bits of a byte and the binary numeral, most significant bit first,
   of bytes given least significant first. *)
BitsOfByte(b) == [i \in 1..8 |-> (b \div 2^(8 - i)) % 2]
Numeral(le) ==
  [i \in 1..8 * Len(le) |->
     BitsOfByte(le[Len(le) - ((i - 1) \div 8)])[((i - 1) % 8) + 1]]
ByteOfBits(bits) ==
  128 * bits[1] + 64 * bits[2] + 32 * bits[3] + 16 * bits[4]
    + 8 * bits[5] + 4 * bits[6] + 2 * bits[7] + bits[8]

(* A negative 64-bit integer beyond the range of the integers used here is
   held as its two's complement numeral. *)
BigNegWide(bs) ==
  [n |-> 0, kind |-> "bigint", frac |-> FALSE, wide |-> bs, neg |-> TRUE]
IsNegWide(v) == "neg" \in DOMAIN v

(* The unsigned integer of the first k <= 4 bytes, least significant
   first. *)
LowValue(le, k) ==
  (IF k >= 1 THEN le[1] ELSE 0) + (IF k >= 2 THEN 256 * le[2] ELSE 0)
    + (IF k >= 3 THEN 65536 * le[3] ELSE 0)
    + (IF k >= 4 THEN 16777216 * le[4] ELSE 0)

(* Variant: the bytes are read as an unsigned integer whatever the type. *)
IntegerOfUnsigned(le, signed, kind) ==
  LET n == Len(le)
      fits == (\A i \in 5..n : le[i] = 0) /\ (n < 4 \/ le[4] < 128)
  IN IF fits
       THEN [n |-> LowValue(le, Min(n, 4)), kind |-> kind, frac |-> FALSE]
       ELSE [n |-> 0, kind |-> kind, frac |-> FALSE, wide |-> Numeral(le)]

(* The integer that Buffer.prototype.readUInt8 / readInt16LE /
   readBigUInt64BE / ... makes of the bytes, given least significant
   first: two's complement when the type is signed. *)
IntegerOf(le, signed, kind) ==
  LET n == Len(le)
      negative == signed /\ le[n] >= 128
      fits == IF negative
                THEN (\A i \in 5..n : le[i] = 255) /\ (n < 4 \/ le[4] >= 128)
                ELSE (\A i \in 5..n : le[i] = 0) /\ (n < 4 \/ le[4] < 128)
  IN IF ~fits THEN
       IF negative THEN BigNegWide(Numeral(le))
       ELSE [n |-> 0, kind |-> kind, frac |-> FALSE, wide |-> Numeral(le)]
     ELSE IF ~negative THEN
       [n |-> LowValue(le, Min(n, 4)), kind |-> kind, frac |-> FALSE]
     ELSE IF n < 4 THEN
       [n |-> LowValue(le, n) - 256^n, kind |-> kind, frac |-> FALSE]
     ELSE
       [n |-> MinInt32 + LowValue(le, 3) + 16777216 * (le[4] - 128),
        kind |-> kind, frac |-> FALSE]

(* _number / _bigint: result = this.buffer[methodName](this.offset), which
   throws when the bytes do not lie inside the buffer, then skip. *)
readNumber(d, numBytes, signed, kind) ==
  IF d.offset < 0 \/ d.offset + numBytes > Len(d.buffer)
    THEN [d EXCEPT !.threw = TRUE]
    ELSE LET bs == SubSeq(d.buffer, d.offset + 1, d.offset + numBytes)
             le == resolveEndian(d.endianness, bs, Reverse(bs))
         IN [d EXCEPT !.ret = IntegerOf(le, signed, kind),
                      !.offset = d.offset + numBytes]

readUint8(d) == readNumber(d, 1, FALSE, "number")
readUint16(d) == readNumber(d, 2, FALSE, "number")
readUint32(d) == readNumber(d, 4, FALSE, "number")
readUint64(d) == readNumber(d, 8, FALSE, "bigint")
readInt8(d) == readNumber(d, 1, TRUE, "number")
readInt16(d) == readNumber(d, 2, TRUE, "number")
readInt32(d) == readNumber(d, 4, TRUE, "number")
readInt64(d) == readNumber(d, 8, TRUE, "bigint")

readByte(d) == readUint8(d)

readBoolean(d) ==
  LET d1 == readByte(d) IN
  IF d1.threw THEN d1 ELSE [d1 EXCEPT !.ret = (d1.ret.n # 0)]

(* bytes(num): for (i = 0; i < num; i++) bytes.push(this.uint8()), left by
   a throw. *)
RECURSIVE readBytesLoop(_, _, _, _)
readBytesLoop(d, acc, i, num) ==
  IF d.threw THEN d
  ELSE IF i >= num THEN [d EXCEPT !.ret = acc]
  ELSE LET d1 == readUint8(d) IN
       readBytesLoop(d1, IF d1.threw THEN acc ELSE Append(acc, d1.ret.n),
                     i + 1, num)
readBytes(d, num) == readBytesLoop(d, <<>>, 0, num)

readChars(d, n) ==
  IF ~hasClearance(d.buffer, d.offset, n, <<>>)
    THEN [d EXCEPT !.threw = TRUE]
    ELSE LET end == d.offset + n IN
         [d EXCEPT !.ret = bufferToString(d.buffer, d.offset, end),
                   !.offset = end]

readSubarray(d, size) ==
  IF ~hasClearance(d.buffer, d.offset, size, <<>>)
    THEN [d EXCEPT !.threw = TRUE]
    ELSE LET end == d.offset + size IN
         [d EXCEPT !.ret = bufferSubarray(d.buffer, d.offset, end),
                   !.offset = end]

readSlice(d, size) == readSubarray(d, size)

(* while (nextByte) nextByte = this.byte() *)
RECURSIVE untilNull(_)
untilNull(d) == IF d.threw \/ d.ret.n = 0 THEN d ELSE untilNull(readByte(d))

(* Variant: the string runs up to the offset the read ends at. *)
readTerminatedStringToOffset(d) ==
  LET start == d.offset
      d1 == untilNull(readByte(d))
  IN IF d1.threw THEN d1
     ELSE [d1 EXCEPT !.ret = bufferToString(d1.buffer, start, d1.offset)]

readTerminatedString(d) ==
  LET start == d.offset
      d1 == readByte(d)
      d2 == untilNull(d1)
  IN IF d1.threw THEN d1
     ELSE IF d1.ret.n = 0 THEN [d1 EXCEPT !.ret = <<>>]
     ELSE IF d2.threw THEN d2
     ELSE [d2 EXCEPT !.ret = bufferToString(d2.buffer, start, d2.offset - 1)]

(* new BinaryDecoder(buffer, initialOffset, endianness) *)
NewDecoder(buf, initialOffset, en) ==
  /\ ~err /\ last.op = "new"
  /\ buffer' = buf
  /\ offset' = initialOffset
  /\ endianness' = en
  /\ tape' = buf
  /\ last' = [LastRec("decoder", initialOffset, 0, FALSE) EXCEPT
                !.preBuffer = buf, !.preLen = Len(buf),
                !.preOffset = initialOffset]
  /\ steps' = steps + 1
  /\ UNCHANGED <<dynamicSizing, dynamicChunkSize, dynamicBufferCropSize,
                 dynamicMinimumCropSize, stack, err, scope>>

(* A read of the decoder: d is what the handler leaves, b the number of
   bytes the read needs. *)
Read(op, arg, b, d) ==
  /\ CanCall
  /\ last.op # "new"
  /\ buffer' = d.buffer
  /\ offset' = d.offset
  /\ err' = d.threw
  /\ last' = [LastRec(op, arg, b, d.threw) EXCEPT !.ret = d.ret]
  /\ steps' = steps + 1
  /\ UNCHANGED <<endianness, dynamicSizing, dynamicChunkSize,
                 dynamicBufferCropSize, dynamicMinimumCropSize, stack, scope,
                 tape>>

DecoderBuffers ==
  {<<>>, <<0>>, <<97>>, <<97, 0>>, <<97, 98, 0, 99>>, <<255, 97, 0, 0>>,
   <<1, 2, 3, 4, 5, 6, 7, 128>>}
DecoderOffsets == {0, 1, -1}
ReadSizes == {0, 1, 2}

NextDecoder ==
  \/ \E buf \in DecoderBuffers, o \in DecoderOffsets, en \in Endians :
       NewDecoder(buf, o, en)
  \/ \E pos \in SeekTargets : last.op # "new" /\ seek(pos)
  \/ \E n \in SkipAmounts : last.op # "new" /\ skip(n)
  \/ \E n \in ReadSizes : Read("chars", n, n, readChars(Coder, n))
  \/ \E n \in ReadSizes : Read("subarray", n, n, readSubarray(Coder, n))
  \/ \E n \in ReadSizes : Read("slice", n, n, readSlice(Coder, n))
  \/ \E n \in ReadSizes : Read("bytes", n, n, readBytes(Coder, n))
  \/ Read("terminatedString", 0, 1, readTerminatedString(Coder))
  \/ Read("boolean", 0, 1, readBoolean(Coder))
  \/ Read("byte", 0, 1, readByte(Coder))
  \/ Read("uint8", 0, 1, readUint8(Coder))
  \/ Read("uint16", 0, 2, readUint16(Coder))
  \/ Read("uint32", 0, 4, readUint32(Coder))
  \/ Read("uint64", 0, 8, readUint64(Coder))
  \/ Read("int8", 0, 1, readInt8(Coder))
  \/ Read("int16", 0, 2, readInt16(Coder))
  \/ Read("int32", 0, 4, readInt32(Coder))
  \/ Read("int64", 0, 8, readInt64(Coder))
  \/ Catch

SpecDecoder == Init /\ [][NextDecoder]_vars

----------------------------------------------------------------------------
(* A primitive written by an encoder and read back by a decoder. *)

(* The bytes, least significant first, that Buffer.prototype.writeUInt8 /
   writeInt16LE / writeBigUInt64BE / ... stores for the integer v: its
   two's complement. *)
ValueBytesLE(v, numBytes) ==
  IF IsWide(v)
    THEN [i \in 1..numBytes |->
            ByteOfBits(SubSeq(v.wide, 8 * (numBytes - i) + 1,
                              8 * (numBytes - i) + 8))]
    ELSE BytesLE(v.n, numBytes)

(* Whether the write method accepts the integer: it throws for a value
   outside the range of its type. *)
InRange(v, numBytes, signed) ==
  IF IsWide(v) THEN
    /\ Len(v.wide) = 8 * numBytes
    /\ IsNegWide(v) => signed
    /\ signed => (v.wide[1] = 1 <=> IsNegWide(v))
  ELSE IF signed THEN
    numBytes >= 4 \/ (v.n >= -(256^numBytes \div 2) /\ v.n < 256^numBytes \div 2)
  ELSE
    v.n >= 0 /\ (numBytes >= 4 \/ v.n < 256^numBytes)

(* _number / _bigint with a plain value, on an encoder of endianness en. *)
writeInteger(e, en, numBytes, signed, v) ==
  LET e1 == resizeIfDynamic(e, numBytes)
      le == ValueBytesLE(v, numBytes)
  IN IF ~InRange(v, numBytes, signed) THEN [e1 EXCEPT !.threw = TRUE]
     ELSE bufferWriteNumber(e1, resolveEndian(en, le, Reverse(le)))

(* boolean(value): this.uint8(value ? 1 : 0) *)
boolean(e, value) == uint8(e, IF value THEN 1 ELSE 0)

(* The integer types: their names, widths in bytes and signedness. *)
IntegerTypes ==
  {"uint8", "uint16", "uint32", "uint64", "int8", "int16", "int32", "int64"}
TypeBytes(type) ==
  CASE type \in {"uint8", "int8"} -> 1
    [] type \in {"uint16", "int16"} -> 2
    [] type \in {"uint32", "int32"} -> 4
    [] type \in {"uint64", "int64"} -> 8
TypeSigned(type) == type \in {"int8", "int16", "int32", "int64"}

(* encoder[type](value) on an encoder of endianness en. *)
writeValue(e, en, type, value) ==
  CASE type = "boolean" -> boolean(e, value)
    [] type = "bytes" -> bytes(e, value)
    [] OTHER -> writeInteger(e, en, TypeBytes(type), TypeSigned(type), value)

(* decoder[type]() for the value written; bytes is asked for as many bytes
   as were written. *)
readValue(d, type, value) ==
  CASE type = "boolean" -> readBoolean(d)
    [] type = "bytes" -> readBytes(d, Len(value))
    [] OTHER -> readNumber(d, TypeBytes(type), TypeSigned(type),
                           IF TypeBytes(type) = 8 THEN "bigint" ELSE "number")

(* Values of each type: the ends of its range, values between, a number
   and a bigint for the 64-bit types, and values the type cannot hold. *)
TypedValues(type) ==
  CASE type = "boolean" -> {TRUE, FALSE}
    [] type = "bytes" -> {<<>>, <<7>>, <<0, 255, 128>>}
    [] type = "uint8" -> {Num(0), Num(1), Num(255), Num(256), Num(-1)}
    [] type = "int8" -> {Num(-128), Num(-1), Num(127), Num(128)}
    [] type = "uint16" -> {Num(0), Num(258), Num(65535)}
    [] type = "int16" -> {Num(-32768), Num(-2), Num(32767), Num(-32769)}
    [] type = "uint32" ->
         {Num(0), Num(305419896), Num(2147483647),
          NumWide([i \in 1..32 |-> IF i = 1 THEN 1 ELSE 0]),
          NumWide([i \in 1..32 |-> 1])}
    [] type = "int32" -> {Num(MinInt32), Num(-1), Num(2147483647)}
    [] type = "uint64" ->
         {Num(5), Big(5), Big(2147483647),
          BigWide([i \in 1..64 |-> IF i = 32 THEN 1 ELSE 0]),
          BigWide([i \in 1..64 |-> IF i = 1 THEN 1 ELSE 0]),
          BigWide([i \in 1..64 |-> 1])}
    [] type = "int64" ->
         {Num(-5), Big(-1), Big(MinInt32), Big(2147483647),
          BigWide([i \in 1..64 |-> IF i = 1 THEN 0 ELSE 1]),
          BigNegWide([i \in 1..64 |-> IF i = 1 THEN 1 ELSE 0]),
          BigNegWide([i \in 1..64 |-> IF i = 32 THEN 0 ELSE 1])}

TypeNames == IntegerTypes \cup {"boolean", "bytes"}

(* <<size, offset>> of the encoder: room for every type at the start and
   further in, too little room, a negative offset, the offset at the
   end. *)
RoundTripRooms == {<<8, 0>>, <<11, 3>>, <<3, 1>>, <<9, -1>>, <<8, 8>>}

(* encoder = BinaryEncoder.alloc(size, o, en); encoder[type](value);
   decoder = new BinaryDecoder(encoder.buffer, o, en); decoder[type]() *)
RoundTrip(type, value, room, en) ==
  LET e == writeValue(setOffset(alloc(room[1]), room[2]), en, type, value)
      d == readValue(BinaryDecoder(e.buffer, room[2], en), type, value)
  IN
  /\ ~err /\ last.op = "new"
  /\ last' = [LastRec("roundTrip", value, 0, e.threw) EXCEPT
                !.ret = [e |-> e, d |-> d],
                !.from = <<type, room, en>>]
  /\ UNCHANGED <<encVars, stack, err, scope, tape, steps>>

NextRoundTrip ==
  \E type \in TypeNames, room \in RoundTripRooms, en \in Endians :
    \E value \in TypedValues(type) : RoundTrip(type, value, room, en)

SpecRoundTrip == Init /\ [][NextRoundTrip]_vars

----------------------------------------------------------------------------
(* Vocabulary of the properties. *)

WriteOps ==
  {"uint8", "uint16", "uint32", "uint64", "chars", "terminatedString",
   "bytes", "null"}
(* the writes that go through _number only *)
NumberWriteOps == WriteOps \ {"chars"}

(* The last call was a typed write that made a write (null(0) and bytes([])
   make none). *)
IsWrite == last.op \in WriteOps /\ last.arg = 1
(* The last step was the normal return of a dynamic-sizing scope. *)
IsReturn == last.op = "returnDynamic"

CeilDiv(a, c) == (a + c - 1) \div c
Grown == Len(buffer) - last.preLen

(* Every byte of the buffer is the one the history expects there. *)
TapeAgrees == buffer = tape

(* While a scope is open the controller holds what the scope was opened
   with and the furthest write end seen. *)
ScopeIntact ==
  scope.open =>
    /\ dynamicSizing
    /\ dynamicChunkSize = scope.chunk
    /\ scope.clean => dynamicBufferCropSize = Max(scope.floor, scope.hwm)

BadChunk(arg) == arg # <<>> /\ ~(IsInteger(arg[1]) /\ arg[1] > 0)
BadMinimum(arg) == arg # <<>> /\ ~(IsInteger(arg[1]) /\ arg[1] >= 0)

----------------------------------------------------------------------------
(* C1: when a dynamic-sizing scope in which every call succeeded returns
   normally, the buffer length is max(cropFloor, highWaterMark): cropFloor is
   the length at scope entry (minimumSize for dynamicallySized) and
   highWaterMark the largest offset + b over the writes made in the scope;
   seek and skip contribute nothing and the offset at exit plays no part. *)
CropsToHighWaterMark ==
  (IsReturn /\ scope.clean) => Len(buffer) = Max(scope.floor, scope.hwm)

CropsToHighWaterMarkWitness ==
  /\ IsReturn /\ scope.clean /\ scope.kind = "withDynamicSize"
  /\ scope.hwm > scope.floor
  /\ Len(buffer) < last.preLen
  /\ scope.exitOffset > scope.hwm

(* C2: in an open scope with chunk size c, a write of b bytes at offset o
   with o + b > byteLength grows the buffer by ceil((o + b - byteLength) / c)
   * c bytes. *)
GrowsBySmallestMultiple ==
  (IsWrite /\ scope.open /\ last.preOffset + last.b > last.preLen) =>
    Grown = CeilDiv(last.preOffset + last.b - last.preLen, scope.chunk)
              * scope.chunk

GrowsBySmallestMultipleWitness ==
  /\ IsWrite /\ scope.open /\ ~last.threw
  /\ last.preOffset + last.b - last.preLen = scope.chunk + 1
  /\ Grown = 2 * scope.chunk

(* C3: growth and cropping never alter bytes: at every moment each byte of
   the buffer is the value last written to that offset, or the byte that was
   there at construction, or zero if the offset was added by growth and not
   written since. *)
BytesSurviveResizing == TapeAgrees

BytesSurviveResizingWitness ==
  /\ IsReturn /\ scope.clean
  /\ scope.floor > 0 /\ Len(buffer) > scope.floor
  /\ buffer[1] = 9
  /\ buffer[Len(buffer)] # 0

(* C4: seek and skip set the offset and leave the buffer length and the
   controller alone, also when the offset ends past the end; a write made in
   a scope from an offset past the end grows the buffer as computed from that
   offset, and a write that lies inside the buffer causes no growth whatever
   the offset was before. *)
OnlyWritesGrow ==
  /\ last.op = "seek" => (offset = last.arg /\ Len(buffer) = last.preLen)
  /\ last.op = "skip" =>
       (offset = last.preOffset + last.arg /\ Len(buffer) = last.preLen)
  /\ last.op \in {"seek", "skip"} => (ScopeIntact /\ TapeAgrees)
  /\ (IsWrite /\ scope.open /\ last.preOffset > last.preLen) =>
       Grown = CeilDiv(last.preOffset + last.b - last.preLen, scope.chunk)
                 * scope.chunk
  /\ (last.op \in WriteOps /\ scope.open /\ last.preOffset >= 0
        /\ last.preOffset < last.preLen
        /\ last.preOffset + last.b <= last.preLen) => Grown = 0

OnlyWritesGrowWitness ==
  /\ IsWrite /\ scope.open /\ scope.soughtPast /\ ~last.threw
  /\ last.preOffset < last.preLen
  /\ Grown = 0

(* C5: withDynamicSize called from inside a running scope throws and changes
   nothing: the running scope keeps its chunk size, crop floor and high-water
   mark, later writes in it still grow the buffer by whole chunks, and it
   still crops to max(cropFloor, highWaterMark) when it returns. *)
NestedScopeRejected ==
  /\ (last.op = "withDynamicSize" /\ last.preDepth > 0) =>
       /\ last.threw
       /\ Len(stack) = last.preDepth
       /\ scope.open /\ ScopeIntact
       /\ Len(buffer) = last.preLen /\ offset = last.preOffset
       /\ TapeAgrees
  /\ (IsWrite /\ scope.open /\ scope.nested
        /\ last.preOffset + last.b > last.preLen) =>
       Grown = CeilDiv(last.preOffset + last.b - last.preLen, scope.chunk)
                 * scope.chunk
  /\ (IsReturn /\ scope.nested /\ scope.clean) =>
       Len(buffer) = Max(scope.floor, scope.hwm)

(* A scope that grew after rejecting a nested call and was cropped at its
   exit. *)
NestedScopeRejectedWitness ==
  /\ IsReturn /\ scope.nested /\ scope.clean
  /\ scope.hwm > scope.nestedLen
  /\ Len(buffer) > scope.floor
  /\ Len(buffer) < last.preLen

(* C6: withDynamicSize and dynamicallySized given a chunk size that is no
   positive integer (dynamicallySized also: a minimumSize that is no
   non-negative integer) throw without running the function: no callback is
   started and the encoder's buffer, offset and controller are as before. *)
BadSizesRejected ==
  ((last.op = "withDynamicSize" /\ BadChunk(last.arg))
     \/ (last.op = "dynamicallySized"
           /\ (BadChunk(last.arg) \/ BadMinimum(last.ret)))) =>
    /\ last.threw
    /\ Len(stack) = last.preDepth
    /\ dynamicSizing = last.preActive
    /\ Len(buffer) = last.preLen /\ offset = last.preOffset
    /\ TapeAgrees

BadSizesRejectedWitness ==
  /\ last.op = "withDynamicSize" /\ BadChunk(last.arg)
  /\ last.threw /\ ~dynamicSizing /\ stack = <<>>
  /\ Len(buffer) > 0

(* C7: after a scope has returned normally the controller is reset
   (inactive, chunk size 256, crop size 0); while the controller is inactive
   no write changes the buffer length and a numeric write that does not fit
   throws; a scope opened without a chunk size grows in steps of 256 whatever
   the chunk size of the scope before it. *)
ControllerReset ==
  /\ IsReturn =>
       /\ ~dynamicSizing /\ ~scope.open
       /\ dynamicChunkSize = DEFAULT_CHUNK_SIZE
       /\ dynamicBufferCropSize = 0
  /\ (last.op \in WriteOps /\ ~last.preActive) => Grown = 0
  /\ (IsWrite /\ last.op \in NumberWriteOps /\ ~last.preActive
        /\ (last.preOffset < 0 \/ last.preOffset + last.b > last.preLen)) =>
       last.threw
  /\ (scope.open /\ scope.arg = <<>>) =>
       /\ dynamicChunkSize = DEFAULT_CHUNK_SIZE
       /\ (IsWrite => Grown % DEFAULT_CHUNK_SIZE = 0)

ControllerResetWitness ==
  /\ IsWrite /\ scope.open /\ scope.arg = <<>>
  /\ scope.prevChunk \notin {0, DEFAULT_CHUNK_SIZE}
  /\ Grown = DEFAULT_CHUNK_SIZE

(* C8: when a scope returns normally the offset becomes min(offset at exit,
   final byteLength), so it is at most the byteLength. *)
OffsetClampedAtExit ==
  IsReturn =>
    /\ offset = Min(scope.exitOffset, Len(buffer))
    /\ offset <= Len(buffer)

OffsetClampedAtExitWitness ==
  /\ IsReturn
  /\ Len(buffer) < last.preLen
  /\ scope.exitOffset > Len(buffer)
  /\ scope.exitOffset <= last.preLen

(* C9: dynamicallySized runs the builder on an encoder of max(chunkSize,
   minimumSize) bytes (defaults 256 and 0), and when the builder, all of
   whose calls succeeded, returns, the encoder has max(minimumSize, highest
   write end) bytes. *)
SizedToWhatWasWritten ==
  /\ (last.op = "dynamicallySized" /\ ~last.threw) =>
       Len(buffer) = Max(Whole(Coalesce(last.arg, 2 * DEFAULT_CHUNK_SIZE)),
                         Whole(Coalesce(last.ret, 0)))
  /\ (IsReturn /\ scope.kind = "dynamicallySized" /\ scope.clean) =>
       /\ Len(buffer) = Max(scope.floor, scope.hwm)
       /\ Len(buffer) >= scope.floor

SizedToWhatWasWrittenWitness ==
  /\ IsReturn /\ scope.kind = "dynamicallySized" /\ scope.clean
  /\ scope.floor > 0 /\ scope.hwm > scope.floor
  /\ Len(buffer) < last.preLen

(* C10: withOffset, withEndianness, saveOffset and saveEndianness restore
   the offset / byte order that was current before the call on every exit
   path: when fn returns and when fn throws. *)
RestoredOnEveryExit ==
  /\ last.op = "returnOffset" => offset = last.arg
  /\ last.op = "returnEndianness" => endianness = last.arg
  /\ (last.op = "abort" /\ last.ret \in {"withOffset", "saveOffset"}) =>
       offset = last.arg.savedOffset
  /\ (last.op = "abort" /\ last.ret \in {"withEndianness", "saveEndianness"}) =>
       endianness = last.arg.savedEndianness

(* C13: bit-mask round trip: for N in {8, 16, 32, 64}, masks a list of
   positive integers summing to N and values with 0 <= values[i] <=
   2^masks[i] - 1, encode(N, masks, values) succeeds and decode(N, masks,
   that result) returns the values in the same order. *)
MaskRoundTrip ==
  /\ (last.op = "encode" /\ GoodMasks(ArgBits, ArgMasks)
        /\ FittingValues(ArgMasks, ArgValues) /\ AllNumbers(ArgValues)) =>
       ~last.threw
  /\ last.op = "decodeEncoded" =>
       (~last.threw /\ last.ret.values = ArgValues)

(* C14: single-mask identity: for N in {8, 16, 32, 64} and 0 <= v <=
   2^N - 1, encode(N, [N], [v]) returns v and decode(N, [N], v) returns
   [v]. *)
SingleMaskIdentity ==
  /\ (last.op = "encode" /\ ArgMasks = <<2 * ArgBits>>
        /\ FittingValues(ArgMasks, ArgValues) /\ AllNumbers(ArgValues)) =>
       (~last.threw /\ last.ret.value = ArgValues[1])
  /\ (last.op = "decode" /\ ArgMasks = <<2 * ArgBits>>
        /\ FitsMask(2 * ArgBits, ArgValues)) =>
       (~last.threw /\ last.ret.values = <<ArgValues>>)

(* C15: encode and decode reject a mask list exactly when it is empty, else
   when some mask is not a positive integer (also when the masks sum to N, as
   [-1, N + 1]), else when the masks do not sum to N, each with its own
   error; every other mask list passes the validation of the masks. *)
MasksValidated ==
  last.op \in {"encode", "decode"} =>
    LET expected == ExpectedMaskError(ArgBits, ArgMasks) IN
    IF expected # "ok"
      THEN last.threw /\ last.ret.error = expected
      ELSE last.ret.error \notin MaskErrors

MasksValidatedWitness ==
  /\ last.op = "encode"
  /\ ArgMasks = <<-2, 2 * ArgBits + 2>>
  /\ last.threw
  /\ last.ret.error = "Bit masks must be positive integers"

(* C16: with valid masks of any widths from 1 to 64, encode accepts a value
   list if and only if it is as long as the mask list, every value is a
   non-negative integer and every value is at most 2^mask - 1 for its mask
   (so encode(8, [1, 7], [2, 0]) fails and every value up to 2^31 - 1 is
   accepted for a mask of 31 bits). *)
ValuesValidated ==
  (last.op = "encode" /\ GoodMasks(ArgBits, ArgMasks)) =>
    (last.ret.error \notin ValueErrors <=> FittingValues(ArgMasks, ArgValues))

(* C18: for N = 64 encode accepts values given as numbers, as bigints or as
   a mixture of both and packs them into the 64-bit value that results when
   every value is a bigint. *)
PacksNumbersAndBigints ==
  (last.op = "encode" /\ ArgBits = 64 /\ GoodMasks(ArgBits, ArgMasks)
     /\ FittingValues(ArgMasks, ArgValues)) =>
    /\ ~last.threw
    /\ last.ret.value.kind = "bigint"
    /\ Packable(ArgMasks, ArgValues) =>
         last.ret.value.n = Packed(ArgMasks, ArgValues, 1)

----------------------------------------------------------------------------
(* Writes, with and without maskings. *)

MaskedOps == {"uint8Masked", "uint32Masked", "uint64Masked"}

(* C11: with dynamic sizing inactive, a typed write that needs b bytes when
   bytesRemaining < b fails and leaves buffer contents and offset as they
   were; bytes, null, chars and terminatedString write no prefix of their
   data before failing. *)
FailedWriteChangesNothing ==
  (last.op \in WriteOps /\ ~last.preActive
     /\ last.b > last.preLen - last.preOffset) =>
    /\ last.threw
    /\ buffer = last.preBuffer
    /\ offset = last.preOffset

(* C12: every successful typed write of byte width b leaves the offset at
   its previous value plus b (n for bytes, null and chars of n bytes), with
   maskings as without, and inside a dynamic-sizing scope also when the
   write made the buffer grow. *)
WriteAdvancesByWidth ==
  (last.op \in WriteOps \cup MaskedOps /\ ~last.threw) =>
    offset = last.preOffset + last.b

(* C17: a write with maskings that fail validation throws before anything
   is changed: buffer contents and length, offset and, inside a
   dynamic-sizing scope, the high-water mark are as before the call. *)
InvalidMaskingsChangeNothing ==
  (last.op \in MaskedOps
     /\ ~(GoodMasks(ArgBits, ArgMasks) /\ FittingValues(ArgMasks, ArgValues))) =>
    /\ last.threw
    /\ buffer = last.preBuffer
    /\ offset = last.preOffset
    /\ dynamicBufferCropSize = last.preCrop

----------------------------------------------------------------------------
(* Clearance. *)

(* The offset the last hasClearance / ensureClearance call worked from. *)
UsedOffset == Coalesce(last.from, last.preOffset)

(* Nothing of the encoder differs from what it was before the last call. *)
StateKept ==
  /\ buffer = last.preBuffer
  /\ offset = last.preOffset
  /\ dynamicSizing = last.preActive
  /\ dynamicBufferCropSize = last.preCrop
  /\ Len(stack) = last.preDepth

(* C19: hasClearance(bytes, fromOffset) answers true exactly when the offset
   used (fromOffset, or the current offset when it is omitted) is at least 0
   and below byteLength and offset + bytes <= byteLength; the call changes
   nothing of the coder. *)
ClearanceAnswer ==
  last.op = "hasClearance" =>
    /\ last.ret <=> /\ 0 <= UsedOffset
                    /\ UsedOffset < Len(buffer)
                    /\ UsedOffset + last.arg <= Len(buffer)
    /\ ~last.threw
    /\ StateKept

(* hasClearance answered true for an offset that is not the current one. *)
ClearanceAnswerWitness ==
  /\ last.op = "hasClearance"
  /\ last.ret
  /\ last.from # <<>>
  /\ UsedOffset # offset
  /\ last.arg > 0

(* What ensureClearance adds and returns, and that a rejected call changes
   nothing. *)
ClearanceAdded ==
  /\ (last.arg >= 0 /\ UsedOffset >= 0) =>
       /\ ~last.threw
       /\ last.ret = Max(0, UsedOffset + last.arg - last.preLen)
       /\ Len(buffer) = last.preLen + last.ret
       /\ SubSeq(buffer, 1, last.preLen) = last.preBuffer
       /\ offset = last.preOffset
  /\ (last.arg < 0 \/ UsedOffset < 0) => (last.threw /\ StateKept)

(* C20 as stated: ensureClearance(bytes, fromOffset) with bytes >= 0 and
   offset >= 0 adds and returns max(0, offset + bytes - byteLength) bytes,
   and afterwards hasClearance(bytes, fromOffset) is true; with negative
   bytes or a negative offset it throws and changes nothing. *)
ClearanceEnsured ==
  last.op = "ensureClearance" =>
    /\ ClearanceAdded
    /\ (last.arg >= 0 /\ UsedOffset >= 0) =>
         hasClearance(buffer, offset, last.arg, <<UsedOffset>>)

(* C20, amended: the same, but hasClearance(bytes, fromOffset) is true
   afterwards when bytes > 0; after ensureClearance(0, fromOffset) it is true
   only if the offset was below byteLength before the call. *)
ClearanceEnsuredForBytes ==
  last.op = "ensureClearance" =>
    /\ ClearanceAdded
    /\ (last.arg > 0 /\ UsedOffset >= 0) =>
         hasClearance(buffer, offset, last.arg, <<UsedOffset>>)
    /\ (last.arg = 0 /\ UsedOffset >= 0) =>
         (hasClearance(buffer, offset, 0, <<UsedOffset>>)
            <=> UsedOffset < last.preLen)

(* ensureClearance grew the buffer for an offset that is not the current
   one. *)
ClearanceEnsuredWitness ==
  /\ last.op = "ensureClearance"
  /\ ~last.threw
  /\ last.ret > 0
  /\ last.arg > 0
  /\ last.from # <<>>
  /\ UsedOffset # offset

----------------------------------------------------------------------------
(* The fields of a packed value. *)

(* The number of bits to the left of field i. *)
BitsAbove(masks, i) == SumSeq(SubSeq(masks, 1, i - 1)) \div 2

(* floor(n / 2^r) mod 2^m for 0 <= n < 2^31. *)
FieldAt(n, r, m) ==
  LET q == IF r >= 31 THEN 0 ELSE n \div 2^r IN
  IF m >= 31 THEN q ELSE q % 2^m

(* The same on a binary numeral: the m bits that have r bits to their
   right, as a numeral of the same length. *)
WideFieldAt(bs, r, m) ==
  [i \in 1..Len(bs) |-> IF i > Len(bs) - m THEN bs[i - r] ELSE 0]

(* C26: decode(N, masks, packed) with valid masks and 0 <= packed < 2^N
   returns one field for each mask, in mask order (the first mask takes the
   most significant bits): field i is floor(packed / 2^r_i) mod 2^masks[i],
   r_i being the sum of the masks after i, of the type of packed, for N = 64
   also when packed is 2^63 or more; no field is lost, truncated or
   negative. *)
DecodeSplitsFields ==
  (last.op = "decode" /\ GoodMasks(ArgBits, ArgMasks)
     /\ (IsWide(ArgValues) \/ FitsMask(2 * ArgBits, ArgValues))) =>
    /\ ~last.threw
    /\ Len(last.ret.values) = Len(ArgMasks)
    /\ \A i \in DOMAIN ArgMasks :
         LET f == last.ret.values[i]
             r == BitsBelow(ArgMasks, i)
             m == ArgMasks[i] \div 2
         IN /\ f.kind = ArgValues.kind /\ ~f.frac
            /\ IsWide(f) = IsWide(ArgValues)
            /\ IF IsWide(ArgValues)
                 THEN f.wide = WideFieldAt(ArgValues.wide, r, m)
                 ELSE f.n = FieldAt(ArgValues.n, r, m) /\ f.n >= 0

(* A 64-bit value of 2^63 or more was split into three fields, the last of
   them not 0. *)
DecodeSplitsFieldsWitness ==
  /\ last.op = "decode" /\ ~last.threw
  /\ ArgBits = 64 /\ Len(ArgMasks) = 3
  /\ IsWide(ArgValues) /\ ArgValues.wide[1] = 1
  /\ last.ret.values[1].wide[64] = 1
  /\ last.ret.values[3].wide[64] = 1

(* C27: for valid masks and fitting values encode(N, masks, values) returns
   the sum of values[i] * 2^r_i, r_i being the sum of the masks after i: a
   value from 0 to 2^N - 1, also when the most significant bit of a 32-bit
   or 64-bit result is set; encode(8, [1, 7], [1, 100]) is 228. *)
EncodeSumsFields ==
  (last.op = "encode" /\ GoodMasks(ArgBits, ArgMasks)
     /\ FittingValues(ArgMasks, ArgValues)
     /\ (ArgBits < 64 => AllNumbers(ArgValues))) =>
    /\ ~last.threw
    /\ ~last.ret.value.frac /\ last.ret.value.n >= 0
    /\ Packable(ArgMasks, ArgValues) =>
         last.ret.value.n = Packed(ArgMasks, ArgValues, 1)
    /\ (ArgBits = 8 /\ ArgMasks = <<2, 14>>
          /\ ArgValues = <<Num(1), Num(100)>>) => last.ret.value = Num(228)

----------------------------------------------------------------------------
(* Byte order. *)

(* The bytes the last call stored, if it stored b bytes from the offset it
   was made at. *)
StoredBytes == SubSeq(buffer, last.preOffset + 1, last.preOffset + last.b)

(* C24: a multi-byte write stores its bytes in the order of the endianness
   the coder has when the write is made: uint32(0x12345678) stores 78 56 34
   12 when it is LE and 12 34 56 78 when it is BE (uint16(0x0102) stores 02
   01 and 01 02); setEndianness and withEndianness, at entry and when the
   callback is left, change neither a byte already written nor the
   offset. *)
EndiannessAtTheCall ==
  /\ (last.op = "uint32" /\ ~last.threw) =>
       StoredBytes = (IF endianness = "LE" THEN <<120, 86, 52, 18>>
                                          ELSE <<18, 52, 86, 120>>)
  /\ (last.op = "uint16" /\ ~last.threw) =>
       StoredBytes = (IF endianness = "LE" THEN <<2, 1>> ELSE <<1, 2>>)
  /\ (\/ last.op \in {"setEndianness", "withEndianness", "returnEndianness"}
      \/ last.op = "abort" /\ last.ret = "withEndianness") =>
       (buffer = last.preBuffer /\ offset = last.preOffset)
  /\ TapeAgrees

(* 0x12345678 was written big-endian inside withEndianness by a coder that
   was little-endian before. *)
EndiannessAtTheCallWitness ==
  /\ last.op = "uint32" /\ ~last.threw
  /\ endianness = "BE"
  /\ stack # <<>> /\ Top.kind = "withEndianness"
  /\ Top.savedEndianness = "LE"
  /\ StoredBytes = <<18, 52, 86, 120>>

----------------------------------------------------------------------------
(* Leaving a dynamic-sizing scope by an error. *)

(* C28: a dynamic-sizing scope always ends inactive: once the function
   passed to withDynamicSize has raised, the encoder is inactive, a later
   withDynamicSize with a valid chunk size made outside any callback is
   accepted, and a write made outside any callback that does not fit the
   buffer leaves the buffer as long as it was. *)
ScopeEndsInactive ==
  /\ (last.op = "abort" /\ last.ret = "withDynamicSize") => ~dynamicSizing
  /\ stack = <<>> => ~dynamicSizing
  /\ (last.op = "withDynamicSize" /\ last.preDepth = 0
        /\ ~BadChunk(last.arg)) => ~last.threw
  /\ (last.op \in WriteOps /\ last.preDepth = 0
        /\ last.preOffset + last.b > last.preLen) => Len(buffer) = last.preLen

----------------------------------------------------------------------------
(* Growth without need. *)

(* C29: in a running dynamic-sizing scope a write of b bytes made at offset
   o changes the buffer length only if o + b exceeded the length before the
   write: a write of no bytes (chars of an empty string) at the end of the
   buffer and a write tried at a negative offset leave the length as it
   was. *)
GrowsOnlyPastTheEnd ==
  (last.op \in WriteOps /\ last.preActive
     /\ last.preOffset + last.b <= last.preLen) => Len(buffer) = last.preLen

----------------------------------------------------------------------------
(* Dynamic sizing seen from outside. *)

(* The bytes a call stores. *)
CallWidth(c) ==
  CASE c.op \in {"seek", "skip"} -> 0
    [] c.op = "uint8" -> 1
    [] c.op = "uint16" -> 2
    [] c.op = "chars" -> Len(c.arg)
    [] c.op = "null" -> c.arg[1]

(* Every call of the script is made at an offset of 0 or more, and leaves
   such an offset, when the script starts at offset o. *)
RECURSIVE StaysNonNegative(_, _)
StaysNonNegative(script, o) ==
  \/ script = <<>>
  \/ LET c == Head(script)
         after == CASE c.op = "seek" -> c.arg[1]
                    [] c.op = "skip" -> o + c.arg[1]
                    [] OTHER -> o + CallWidth(c)
     IN o >= 0 /\ after >= 0 /\ StaysNonNegative(Tail(script), after)

(* C30: dynamic sizing is transparent: a sequence of typed writes, seeks
   and skips at non-negative offsets run by dynamicallySized ends with a
   buffer of the same length and bytes whatever the chunk size is, and
   with the bytes the same sequence leaves in an encoder allocated with
   that length. *)
SizingTransparent ==
  (last.op = "builder" /\ StaysNonNegative(last.arg, 0)) =>
    /\ ~last.ret.a.threw /\ ~last.ret.b.threw /\ ~last.ret.fixed.threw
    /\ last.ret.b.buffer = last.ret.a.buffer
    /\ last.ret.fixed.buffer = last.ret.a.buffer

(* A builder that wrote past the end of the first chunk of both runs, after
   a seek over bytes it never wrote. *)
SizingTransparentWitness ==
  /\ last.op = "builder" /\ StaysNonNegative(last.arg, 0)
  /\ last.from = <<1, 2>>
  /\ Len(last.ret.a.buffer) = 5
  /\ last.ret.a.buffer[1] = 0 /\ last.ret.a.buffer[5] # 0

----------------------------------------------------------------------------
(* The Buffer object of the encoder. *)

(* Calls made on one encoder (dynamicallySized makes a new one). *)
OnSameEncoder == last.op \notin {"new", "dynamicallySized", "builder"}

(* C21: a call leaves a new Buffer object in the encoder exactly when it
   changes the length of the buffer: a write or a scope that neither grew
   nor cropped, ensureClearance that adds no bytes and increaseSize(0) keep
   the object; every growth by more than 0 bytes and every crop replaces
   it. *)
ReplacedWithLength ==
  OnSameEncoder => (last.replaced <=> Len(buffer) # last.preLen)

(* A scope returned without cropping and kept the Buffer object, although
   the buffer had been written to in it. *)
ReplacedWithLengthWitness ==
  /\ last.op = "returnDynamic"
  /\ ~last.replaced
  /\ scope.hwm > 0 /\ Len(buffer) = scope.hwm

----------------------------------------------------------------------------
(* Reads of the decoder. *)

(* The offset of the first zero byte of buf at or after offset o, or -1. *)
FirstZero(buf, o) ==
  LET Z == {i \in o..Len(buf) - 1 : buf[i + 1] = 0} IN
  IF Z = {} THEN -1 ELSE CHOOSE i \in Z : \A j \in Z : i <= j

(* C22: terminatedString of the decoder, at an offset that is not negative:
   when the buffer has a zero byte at or after the offset, the read returns
   the bytes from the offset up to, not including, the first such zero byte
   as a string and leaves the offset one past that zero byte; when there is
   no zero byte between the offset and the end of the buffer, it fails. *)
TerminatedStringRead ==
  (last.op = "terminatedString" /\ last.preOffset >= 0) =>
    LET z == FirstZero(last.preBuffer, last.preOffset) IN
    IF z >= 0
      THEN /\ ~last.threw
           /\ last.ret =
                utf8Decode(SubSeq(last.preBuffer, last.preOffset + 1, z))
           /\ offset = last.preOffset + (z - last.preOffset) + 1
           /\ buffer = last.preBuffer
      ELSE last.threw

(* A string of two characters was read from the middle of a buffer that
   goes on after the zero byte. *)
TerminatedStringReadWitness ==
  /\ last.op = "terminatedString" /\ ~last.threw
  /\ last.preOffset = 0
  /\ Len(last.ret) = 2
  /\ offset = 3 /\ offset < Len(buffer)

ReadOps ==
  {"chars", "subarray", "slice", "bytes", "terminatedString", "boolean",
   "byte", "uint8", "uint16", "uint32", "uint64", "int8", "int16", "int32",
   "int64"}

(* C23: a read of the decoder fails whenever hasClearance is false for the
   number of bytes it needs at the offset it is made at, also for 0 bytes
   at the end of the buffer, and no read changes the buffer. *)
ReadsNeedClearance ==
  last.op \in ReadOps =>
    /\ ~hasClearance(last.preBuffer, last.preOffset, last.b, <<>>)
         => last.threw
    /\ buffer = last.preBuffer

----------------------------------------------------------------------------
(* Round trip of a primitive. *)

(* The same integer, whether held as a number or as a bigint. *)
SameInteger(a, b) ==
  /\ IsWide(a) = IsWide(b)
  /\ IsWide(a) => (a.wide = b.wide /\ IsNegWide(a) = IsNegWide(b))
  /\ ~IsWide(a) => a.n = b.n

SameValue(type, a, b) ==
  IF type \in {"boolean", "bytes"} THEN a = b ELSE SameInteger(a, b)

(* C25: a value of an integer type, a boolean or a byte array written by an
   encoder at an offset and read back as the same type by a decoder over
   the same buffer from the same offset with the same endianness is the
   value written, and the decoder ends at the offset the encoder ended
   at. *)
RoundTripReturnsValue ==
  (last.op = "roundTrip" /\ ~last.ret.e.threw) =>
    /\ ~last.ret.d.threw
    /\ SameValue(last.from[1], last.ret.d.ret, last.arg)
    /\ last.ret.d.offset = last.ret.e.offset
    /\ last.ret.d.buffer = last.ret.e.buffer

(* The least int64 was written big-endian three bytes into the buffer and
   read back. *)
RoundTripReturnsValueWitness ==
  /\ last.op = "roundTrip" /\ ~last.ret.e.threw
  /\ last.from = <<"int64", <<11, 3>>, "BE">>
  /\ IsNegWide(last.arg)
  /\ last.ret.e.buffer[4] = 128
  /\ last.ret.d.offset = 11

============================================================================
